---- MODULE Spec2Model ----
(***************************************************************************)
(* Nation-scoped CRUD resource layer of the War Thunder API server         *)
(* (mountCRUDForCategory and its helpers): the in-memory catalog           *)
(* dataCache.vehicles, the JSON documents on disk, and one action per      *)
(* request handler.                                                        *)
(*                                                                         *)
(* JavaScript values are modelled as tagged records of one shape           *)
(*   [t |-> type tag, n |-> integer payload, s |-> character sequence]     *)
(* Strings are sequences of one-character strings, so that trim, isNaN and *)
(* parseInt are computed character by character.  Numbers are integers.    *)
(* Objects (records, request bodies, documents) are functions whose DOMAIN *)
(* is the set of own keys.                                                 *)
(***************************************************************************)
EXTENDS Integers, Sequences, FiniteSets, TLC

VARIABLES dataCache, disk, tmp, last, served, saves

vars == <<dataCache, disk, tmp, last, served, saves>>

(***************************************************************************)
(* JavaScript values                                                       *)
(***************************************************************************)
Undefined == [t |-> "undefined", n |-> 0, s |-> <<>>]
Null == [t |-> "null", n |-> 0, s |-> <<>>]
NaN == [t |-> "nan", n |-> 0, s |-> <<>>]
Num(k) == [t |-> "number", n |-> k, s |-> <<>>]
Str(cs) == [t |-> "string", n |-> 0, s |-> cs]

\* typeof v
TypeOf(v) ==
  CASE v.t = "nan" -> "number"
    [] v.t = "null" -> "object"
    [] OTHER -> v.t

\* ToBoolean(v): the truthiness used by !v and by v || w
Truthy(v) ==
  CASE v.t = "string" -> v.s # <<>>
    [] v.t = "number" -> v.n # 0
    [] OTHER -> FALSE

\* a === b
StrictEq(a, b) == a.t = b.t /\ a.t # "nan" /\ a = b

\* obj[key]: undefined when the key is not an own key
Get(obj, key) == IF key \in DOMAIN obj THEN obj[key] ELSE Undefined

\* { ...a, ...b }: keys of b override keys of a
Spread(a, b) ==
  [k \in (DOMAIN a) \cup (DOMAIN b) |-> IF k \in DOMAIN b THEN b[k] ELSE a[k]]

(***************************************************************************)
(* Strings: String.prototype.trim, Number(string), isNaN, parseInt         *)
(***************************************************************************)
WhiteSpace == {" "}
DecDigits == {"0", "1", "2", "3", "4", "5", "6", "7", "8", "9"}
HexDigits == DecDigits \cup {"a", "b", "c", "d", "e", "f", "A", "B", "C", "D", "E", "F"}

DigitValue(ch) ==
  CASE ch = "0" -> 0 [] ch = "1" -> 1 [] ch = "2" -> 2 [] ch = "3" -> 3
    [] ch = "4" -> 4 [] ch = "5" -> 5 [] ch = "6" -> 6 [] ch = "7" -> 7
    [] ch = "8" -> 8 [] ch = "9" -> 9
    [] ch \in {"a", "A"} -> 10 [] ch \in {"b", "B"} -> 11
    [] ch \in {"c", "C"} -> 12 [] ch \in {"d", "D"} -> 13
    [] ch \in {"e", "E"} -> 14 [] ch \in {"f", "F"} -> 15

RECURSIVE TrimStart(_)
TrimStart(cs) ==
  IF cs # <<>> /\ Head(cs) \in WhiteSpace THEN TrimStart(Tail(cs)) ELSE cs

RECURSIVE TrimEnd(_)
TrimEnd(cs) ==
  IF cs # <<>> /\ cs[Len(cs)] \in WhiteSpace
    THEN TrimEnd(SubSeq(cs, 1, Len(cs) - 1))
    ELSE cs

\* cs.trim()
Trim(cs) == TrimEnd(TrimStart(cs))

AllIn(cs, chars) == \A i \in 1..Len(cs) : cs[i] \in chars

\* the value of a digit string in the given radix
RECURSIVE DigitsValue(_, _)
DigitsValue(cs, radix) ==
  IF cs = <<>> THEN 0
  ELSE DigitsValue(SubSeq(cs, 1, Len(cs) - 1), radix) * radix + DigitValue(cs[Len(cs)])

\* the longest prefix of cs made of the given characters
RECURSIVE PrefixIn(_, _)
PrefixIn(cs, chars) ==
  IF cs # <<>> /\ Head(cs) \in chars
    THEN <<Head(cs)>> \o PrefixIn(Tail(cs), chars)
    ELSE <<>>

\* ExponentPart of a decimal literal: e or E, optional sign, digits
IsExponentPart(cs) ==
  /\ Len(cs) >= 2
  /\ cs[1] \in {"e", "E"}
  /\ LET rest == IF cs[2] \in {"+", "-"} THEN SubSeq(cs, 3, Len(cs)) ELSE Tail(cs)
     IN rest # <<>> /\ AllIn(rest, DecDigits)

\* StrUnsignedDecimalLiteral without Infinity:
\*   digits [. [digits]] [exponent]  |  . digits [exponent]
IsUnsignedDecimal(cs) ==
  LET int == PrefixIn(cs, DecDigits)
      afterInt == SubSeq(cs, Len(int) + 1, Len(cs))
      hasDot == afterInt # <<>> /\ Head(afterInt) = "."
      frac == IF hasDot THEN PrefixIn(Tail(afterInt), DecDigits) ELSE <<>>
      afterFrac == IF hasDot THEN SubSeq(afterInt, Len(frac) + 2, Len(afterInt)) ELSE afterInt
  IN /\ int # <<>> \/ frac # <<>>
     /\ afterFrac = <<>> \/ IsExponentPart(afterFrac)

Infinity == <<"I", "n", "f", "i", "n", "i", "t", "y">>

\* the StringNumericLiteral grammar applied by Number(string), after trimming
IsStringNumericLiteral(cs) ==
  \/ cs = <<>>
  \/ /\ Len(cs) >= 3
     /\ cs[1] = "0"
     /\ \/ cs[2] \in {"x", "X"} /\ AllIn(SubSeq(cs, 3, Len(cs)), HexDigits)
        \/ cs[2] \in {"o", "O"} /\ AllIn(SubSeq(cs, 3, Len(cs)), {"0", "1", "2", "3", "4", "5", "6", "7"})
        \/ cs[2] \in {"b", "B"} /\ AllIn(SubSeq(cs, 3, Len(cs)), {"0", "1"})
  \/ LET unsigned == IF cs[1] \in {"+", "-"} THEN Tail(cs) ELSE cs
     IN unsigned = Infinity \/ IsUnsignedDecimal(unsigned)

\* isNaN(identifier) for a string identifier: Number(identifier) is NaN
IsNaNString(cs) == ~IsStringNumericLiteral(Trim(cs))

\* parseInt(identifier) with no radix argument
ParseInt(cs) ==
  LET t == TrimStart(cs)
      neg == t # <<>> /\ Head(t) = "-"
      u == IF t # <<>> /\ Head(t) \in {"+", "-"} THEN Tail(t) ELSE t
      hex == Len(u) >= 2 /\ u[1] = "0" /\ u[2] \in {"x", "X"}
      digits == IF hex THEN PrefixIn(SubSeq(u, 3, Len(u)), HexDigits)
                ELSE PrefixIn(u, DecDigits)
      value == DigitsValue(digits, IF hex THEN 16 ELSE 10)
  IN IF digits = <<>> THEN NaN
     ELSE Num(IF neg THEN 0 - value ELSE value)

\* Number(v) as applied by Math.max to each argument.  Numbers of the model
\* are integers: a string converts to a number when it is an integer literal
\* (decimal digits with optional sign, or 0x hexadecimal) and to NaN when it
\* is no numeric literal; request bodies carry no fractional id strings.
ToNumber(v) ==
  CASE v.t = "number" -> v
    [] v.t = "null" -> Num(0)
    [] v.t = "string" ->
         LET t == Trim(v.s)
         IN IF t = <<>> THEN Num(0)
            ELSE IF IsStringNumericLiteral(t) THEN ParseInt(t)
            ELSE NaN
    [] OTHER -> NaN

\* Math.max(...values) for a non-empty argument list
MathMax(values) ==
  LET nums == [i \in 1..Len(values) |-> ToNumber(values[i])]
  IN IF \E i \in 1..Len(nums) : nums[i].t = "nan" THEN NaN
     ELSE Num(CHOOSE m \in {nums[i].n : i \in 1..Len(nums)} :
                \A i \in 1..Len(nums) : nums[i].n <= m)

\* x + 1 for a number x
PlusOne(v) == IF v.t = "nan" THEN NaN ELSE Num(v.n + 1)

(***************************************************************************)
(* Bounds and the inputs of the requests                                   *)
(***************************************************************************)
\* the number of create, update and delete requests sent to the server
MaxRequests == 2

Categories == {"aircraft", "tanks"}

\* the categories whose routes receive requests
RequestedCategories == {"aircraft"}

usa == <<"u", "s", "a">>
uk == <<"u", "k">>
Nations == {usa, uk}

\* Determine unique id field name per category
idFieldForCategory ==
  [aircraft |-> "aircraftid", helicopters |-> "helicopterid", tanks |-> "tankid",
   bluewater |-> "shipid", coastal |-> "shipid"]

\* the :identifier path parameters sent by clients
Identifiers == {<<"a">>, <<"1">>, <<"2">>}

\* identifiers that Number() accepts but that are no base-10 integers
NonIntegerIdentifiers == {<<"1", ".", "5">>, <<"1", "e", "2">>, <<"0", "x", "1">>}

\* id-field values sent in create bodies: a word, a digit string, a blank
BlankString == Str(<<" ">>)

NameN == Str(<<"n">>)
NameM == Str(<<"m">>)

\* request bodies of POST: the accepted ones carry the id-field and a name,
\* some an id or a nation of their own; a blank id-field or a missing one is
\* rejected, an out-of-range rank is not looked at
CreateBodies(c) ==
  LET idField == idFieldForCategory[c]
      body(key) == [k \in {idField, "name"} |-> IF k = "name" THEN NameN ELSE key]
  IN {body(Str(<<"a">>)),
      body(Str(<<"1">>)),
      Spread(body(Str(<<"1">>)), [id |-> Num(1)]),
      Spread(body(Str(<<"a">>)), [id |-> Str(<<"x">>)]),
      Spread(body(Str(<<"a">>)), [nation |-> Str(uk)]),
      body(BlankString),
      [name |-> NameN],
      Spread(body(Str(<<"a">>)), [rank |-> Num(9)])}

\* request bodies of PATCH: a changed name, alone or with an id, a nation and
\* an id-field value of its own, and an out-of-range rank
UpdateBodies(c) ==
  LET idField == idFieldForCategory[c]
  IN {[name |-> NameM],
      [k \in {"name", "id", "nation", idField} |->
         CASE k = "name" -> NameM
           [] k = "id" -> Num(2)
           [] k = "nation" -> Str(uk)
           [] OTHER -> Str(<<"1">>)],
      [rank |-> Num(9)]}

\* outcomes of one saveJSON call: both steps succeed, writeFile throws,
\* rename throws
SaveOutcomes == {"ok", "writeFail", "renameFail"}

(***************************************************************************)
(* Files and the persistent store adapter                                  *)
(***************************************************************************)
NoFile == [state |-> "missing", doc |-> <<>>]
PartialFile == [state |-> "partial", doc |-> <<>>]
CompleteFile(doc) == [state |-> "complete", doc |-> doc]

\* dataCache.vehicles[category] is null when the document failed to load
NotLoaded == [loaded |-> FALSE, doc |-> <<>>]
Loaded(doc) == [loaded |-> TRUE, doc |-> doc]

\* loadJSON: the parsed document, or null on any read or parse failure
loadJSON(file) ==
  IF file.state = "complete" THEN Loaded(file.doc) ELSE NotLoaded

\* JSON.stringify of one record, read back as the JSON value it denotes:
\* keys whose value is undefined are omitted, NaN is written as null
StringifyItem(item) ==
  [k \in {j \in DOMAIN item : item[j].t # "undefined"} |->
     IF item[k].t = "nan" THEN Null ELSE item[k]]

\* JSON.stringify(data, null, 2) of a category document
Stringify(doc) ==
  [nation \in DOMAIN doc |->
     [i \in 1..Len(doc[nation]) |-> StringifyItem(doc[nation][i])]]

\* saveJSON: write the serialization to <target>.tmp, then rename it over
\* the target; any exception is caught and reported as false
saveJSONResult(outcome) == outcome = "ok"

saveJSONTarget(target, data, outcome) ==
  IF outcome = "ok" THEN CompleteFile(Stringify(data)) ELSE target

saveJSONTemp(temp, data, outcome) ==
  CASE outcome = "ok" -> NoFile
    [] outcome = "renameFail" -> CompleteFile(Stringify(data))
    [] OTHER -> PartialFile

(***************************************************************************)
(* Helpers of the CRUD engine                                              *)
(***************************************************************************)
\* Generate next numeric ID for a nation in a given category
getNextIdForCategory(doc, nation) ==
  LET nationItems == IF nation \in DOMAIN doc THEN doc[nation] ELSE <<>>
  IN IF Len(nationItems) = 0 THEN Num(1)
     ELSE PlusOne(MathMax([i \in 1..Len(nationItems) |->
                             IF Truthy(Get(nationItems[i], "id"))
                               THEN Get(nationItems[i], "id")
                               ELSE Num(0)]))

\* !v || typeof v !== 'string' || v.trim() === ''
NotNonEmptyString(v) ==
  \/ ~Truthy(v)
  \/ TypeOf(v) # "string"
  \/ Trim(v.s) = <<>>

\* v !== undefined && (typeof v !== 'number' || v < lo || v > hi);
\* every comparison with NaN is false
OutOfRange(v, lo, hi) ==
  /\ v.t # "undefined"
  /\ \/ TypeOf(v) # "number"
     \/ v.t = "number" /\ (v.n < lo \/ v.n > hi)

\* v !== undefined && (typeof v !== 'number' || v < lo)
BelowMinimum(v, lo) ==
  /\ v.t # "undefined"
  /\ \/ TypeOf(v) # "number"
     \/ v.t = "number" /\ v.n < lo

RankMax == 8
BrMax == 15

\* a validation that checks the required fields only, never a range
validateGenericDataRequiredOnly(category, data, isUpdate) ==
  LET idField == idFieldForCategory[category]
  IN IF isUpdate THEN <<>>
     ELSE (IF NotNonEmptyString(Get(data, idField)) THEN <<"id-field">> ELSE <<>>)
          \o (IF NotNonEmptyString(Get(data, "name")) THEN <<"name">> ELSE <<>>)

\* Generic validation for create/update: the list of violated rules
validateGenericData(category, data, isUpdate) ==
  LET idField == idFieldForCategory[category]
      required ==
        IF isUpdate THEN <<>>
        ELSE (IF NotNonEmptyString(Get(data, idField)) THEN <<"id-field">> ELSE <<>>)
             \o (IF NotNonEmptyString(Get(data, "name")) THEN <<"name">> ELSE <<>>)
  IN required
     \o (IF OutOfRange(Get(data, "rank"), 1, RankMax) THEN <<"rank">> ELSE <<>>)
     \o (IF OutOfRange(Get(data, "br"), 1, BrMax) THEN <<"br">> ELSE <<>>)
     \o (IF BelowMinimum(Get(data, "crew"), 1) THEN <<"crew">> ELSE <<>>)

\* the identifier resolver: isNumeric ? parseInt(identifier) : identifier
SearchId(identifier) ==
  IF ~IsNaNString(identifier) THEN ParseInt(identifier) ELSE Str(identifier)

\* i[idField] === identifier || i.id === searchId
Matches(item, idField, identifier) ==
  \/ StrictEq(Get(item, idField), Str(identifier))
  \/ StrictEq(Get(item, "id"), SearchId(identifier))

\* nationItems.findIndex(...): the first matching position, 0 when none
FindIndex(nationItems, idField, identifier) ==
  LET hits == {i \in 1..Len(nationItems) : Matches(nationItems[i], idField, identifier)}
  IN IF hits = {} THEN 0 ELSE CHOOSE i \in hits : \A j \in hits : i <= j

\* nationItems.find(...) || null
Find(nationItems, idField, identifier) ==
  LET index == FindIndex(nationItems, idField, identifier)
  IN IF index = 0 THEN Null ELSE nationItems[index]

\* a duplicate check that compares the incoming id-field value with i.id
DuplicateExistsWrongField(nationItems, idField, incomingId) ==
  \E i \in 1..Len(nationItems) : StrictEq(Get(nationItems[i], "id"), incomingId)

\* the duplicate check of create: collection[nation].find(i => i[idField] === incomingId)
DuplicateExists(nationItems, idField, incomingId) ==
  \E i \in 1..Len(nationItems) : StrictEq(Get(nationItems[i], idField), incomingId)

\* the record built by create: { id: <next id>, nation, ...req.body }
NewItem(nextId, nation, body) ==
  Spread([id |-> nextId, nation |-> Str(nation)], body)

\* an update that replaces the record by the body, keeping only id, nation
\* and the id-field of the record
UpdatedReplaces(original, body, idField) ==
  Spread(body, [k \in {"id", "nation", idField} |-> Get(original, k)])

\* an update that sets back id and nation but not the id-field
UpdatedKeepsIdOnly(original, body, idField) ==
  Spread(Spread(original, body),
         [k \in {"id", "nation"} |-> Get(original, k)])

\* an update that spreads the body after the preserved fields
UpdatedBodyLast(original, body, idField) ==
  Spread(Spread(original, [k \in {"id", "nation", idField} |-> Get(original, k)]),
         body)

\* the record built by update: the body merged over the record, then id,
\* nation and the id-field set back to the record's own values
Updated(original, body, idField) ==
  Spread(Spread(original, body),
         [k \in {"id", "nation", idField} |-> Get(original, k)])

\* a removal that drops the last element whatever the index
RemoveLast(items, index) == SubSeq(items, 1, Len(items) - 1)

\* array.splice(index, 1) and array.splice(index, 0, item), 1-based
RemoveAt(items, index) ==
  SubSeq(items, 1, index - 1) \o SubSeq(items, index + 1, Len(items))

InsertAt(items, index, item) ==
  SubSeq(items, 1, index - 1) \o <<item>> \o SubSeq(items, index, Len(items))

(***************************************************************************)
(* State                                                                   *)
(*   dataCache[c]  dataCache.vehicles[c]: null, or nation -> list          *)
(*   disk[c]       the category document filePathForCategory[c]            *)
(*   tmp[c]        its sibling <target>.tmp                                *)
(*   last          the last request served and the response it received    *)
(*   served        the number of mutating requests served                  *)
(*   saves         the saveJSON calls followed step by step                *)
(***************************************************************************)
NoItem == <<>>
NoIdentifier == <<>>
NoBody == <<>>

Response(op, c, n, identifier, body, status, kind, item) ==
  [op |-> op, category |-> c, nation |-> n, identifier |-> identifier,
   body |-> body, status |-> status, kind |-> kind, item |-> item,
   details |-> <<>>, available_nations |-> {}, count |-> 0, items |-> <<>>,
   query |-> <<>>, total |-> 0, page |-> 0, limit |-> 0, totalPages |-> 0]

\* the error body's details: a list of messages, or one message
WithDetails(response, details) == [response EXCEPT !.details = details]

\* the message of create's required-field check, one string naming both fields
RequiredMessage == <<"id-field and name">>

\* one loaded record
Item(idField, id, nation, key, name) ==
  [k \in {"id", "nation", idField, "name"} |->
     CASE k = "id" -> Num(id)
       [] k = "nation" -> Str(nation)
       [] k = "name" -> name
       [] OTHER -> Str(key)]

\* the aircraft documents found on disk at startup; id and id-field values
\* are unique within each nation list
InitDocs ==
  {<<>>,
   [n \in {usa} |-> <<>>],
   [n \in {usa} |-> <<Item("aircraftid", 1, usa, <<"a">>, NameN)>>],
   [n \in {usa} |-> <<Item("aircraftid", 1, usa, <<"a">>, NameN),
                      Item("aircraftid", 2, usa, <<"1">>, NameN)>>]}

\* preloadData: every category document is read once at startup; the
\* aircraft document is readable or missing, the tanks document is missing
Init ==
  /\ disk \in [Categories -> {NoFile} \cup {CompleteFile(d) : d \in InitDocs}]
  /\ disk["tanks"] = NoFile
  /\ tmp = [c \in Categories |-> NoFile]
  /\ dataCache = [c \in Categories |-> loadJSON(disk[c])]
  /\ last = Response("none", "aircraft", usa, NoIdentifier, NoBody, 0, "none", NoItem)
  /\ served = 0
  /\ saves = <<>>

(***************************************************************************)
(* Request handlers of mountCRUDForCategory.  One request is served at a   *)
(* time: each action is the whole handler, the awaited saveJSON included.  *)
(***************************************************************************)

\* a read that answers from the document on disk
GetOneFromDisk(c, n, identifier) ==
  LET collection == loadJSON(disk[c])
      idField == idFieldForCategory[c]
      nationItems == collection.doc[n]
      item == Find(nationItems, idField, identifier)
  IN /\ last' =
          IF ~collection.loaded
            THEN Response("get", c, n, identifier, NoBody, 500, "NotLoaded", NoItem)
          ELSE IF n \notin DOMAIN collection.doc
            THEN Response("get", c, n, identifier, NoBody, 404, "NotFound", NoItem)
          ELSE IF item = Null
            THEN Response("get", c, n, identifier, NoBody, 404, "NotFound", NoItem)
          ELSE Response("get", c, n, identifier, NoBody, 200, "ok", item)
     /\ UNCHANGED <<dataCache, disk, tmp, served, saves>>

\* GET <basePath>/:nation/:identifier
GetOne(c, n, identifier) ==
  LET collection == dataCache[c]
      idField == idFieldForCategory[c]
      nationItems == collection.doc[n]
      item == Find(nationItems, idField, identifier)
  IN /\ last' =
          IF ~collection.loaded
            THEN Response("get", c, n, identifier, NoBody, 500, "NotLoaded", NoItem)
          ELSE IF n \notin DOMAIN collection.doc
            THEN Response("get", c, n, identifier, NoBody, 404, "NotFound", NoItem)
          ELSE IF item = Null
            THEN Response("get", c, n, identifier, NoBody, 404, "NotFound", NoItem)
          ELSE Response("get", c, n, identifier, NoBody, 200, "ok", item)
     /\ UNCHANGED <<dataCache, disk, tmp, served, saves>>

\* String.prototype.toLowerCase on the letters the requests use
ToLowerCase(cs) ==
  [i \in 1..Len(cs) |->
     CASE cs[i] = "A" -> "a" [] cs[i] = "K" -> "k" [] cs[i] = "N" -> "n"
       [] OTHER -> cs[i]]

\* String.prototype.includes
Includes(cs, part) ==
  \E i \in 0..(Len(cs) - Len(part)) : SubSeq(cs, i + 1, i + Len(part)) = part

\* Object.values(collection).flat(): the nation lists one after the other.
\* The keys are taken in the order usa, uk; the order in which keys were
\* inserted is not recorded.
Flat(doc) ==
  (IF usa \in DOMAIN doc THEN doc[usa] ELSE <<>>)
    \o (IF uk \in DOMAIN doc THEN doc[uk] ELSE <<>>)

\* (i.field && i.field.toLowerCase().includes(query)), for string fields
FieldIncludes(item, field, query) ==
  /\ Truthy(Get(item, field))
  /\ Includes(ToLowerCase(Get(item, field).s), query)

\* the search filter on name, id-field and nation; no filter when q is falsy
Filtered(allItems, idField, q) ==
  IF ~Truthy(q) THEN allItems
  ELSE SelectSeq(allItems,
                 LAMBDA i : \/ FieldIncludes(i, "name", ToLowerCase(q.s))
                            \/ FieldIncludes(i, idField, ToLowerCase(q.s))
                            \/ FieldIncludes(i, "nation", ToLowerCase(q.s)))

\* parseInt(req.query.x): NaN when the parameter is absent
ParseIntParam(v) == IF v.t = "string" THEN ParseInt(v.s) ELSE NaN

\* v || d
OrElse(v, d) == IF Truthy(v) THEN v ELSE d

\* Math.min(a, b) of two numbers
MathMin(a, b) == IF a.n <= b.n THEN a ELSE b

\* Math.max(1, parseInt(req.query.page) || 1)
EffectivePage(pageParam) ==
  MathMax(<<Num(1), OrElse(ParseIntParam(pageParam), Num(1))>>).n

\* a limit that is floored at 1 but not capped
EffectiveLimitUncapped(limitParam) ==
  MathMax(<<Num(1), OrElse(ParseIntParam(limitParam), Num(50))>>).n

\* Math.min(100, Math.max(1, parseInt(req.query.limit) || 50))
EffectiveLimit(limitParam) ==
  MathMin(Num(100), MathMax(<<Num(1), OrElse(ParseIntParam(limitParam), Num(50))>>)).n

\* a start index that takes page 1 as the second slice
StartIndexFromPage(page, limit) == page * limit

\* const startIndex = (page - 1) * limit
StartIndex(page, limit) == (page - 1) * limit

\* array.slice(start, end) for start, end >= 0: positions start..end-1, 0-based
Slice(items, start, end) ==
  SubSeq(items, start + 1, IF end < Len(items) THEN end ELSE Len(items))

\* Math.ceil(a / b) for a >= 0, b > 0
Ceil(a, b) == (a + b - 1) \div b

\* the body of the flattened list response
GetAllResult(collection, idField, q, pageParam, limitParam) ==
  LET allItems == Filtered(Flat(IF collection.loaded THEN collection.doc ELSE <<>>),
                           idField, q)
      page == EffectivePage(pageParam)
      limit == EffectiveLimit(limitParam)
      startIndex == StartIndex(page, limit)
  IN [total |-> Len(allItems), page |-> page, limit |-> limit,
      totalPages |-> Ceil(Len(allItems), limit),
      items |-> Slice(allItems, startIndex, startIndex + limit)]

\* GET <basePath>?q=&page=&limit=
GetAll(c, q, pageParam, limitParam) ==
  LET result == GetAllResult(dataCache[c], idFieldForCategory[c], q, pageParam, limitParam)
  IN /\ last' = [Response("all", c, <<>>, NoIdentifier, NoBody, 200, "ok", NoItem)
                   EXCEPT !.query = [q |-> q, page |-> pageParam, limit |-> limitParam],
                          !.total = result.total, !.page = result.page,
                          !.limit = result.limit, !.totalPages = result.totalPages,
                          !.items = result.items]
     /\ UNCHANGED <<dataCache, disk, tmp, served, saves>>

\* a missing-nation test that also treats an empty list as missing
NationMissingOrEmpty(doc, n) == n \notin DOMAIN doc \/ Len(doc[n]) = 0

\* !nationItems: the nation key is absent (an empty array is truthy)
NationMissing(doc, n) == n \notin DOMAIN doc

\* a list-by-nation that creates the missing nation key as create does
ListByNationInitialising(c, n) ==
  LET collection == dataCache[c]
      initialised == [k \in (DOMAIN collection.doc) \cup {n} |->
                        IF k \in DOMAIN collection.doc THEN collection.doc[k] ELSE <<>>]
  IN /\ last' =
          IF ~collection.loaded
            THEN Response("list", c, n, NoIdentifier, NoBody, 500, "NotLoaded", NoItem)
          ELSE [Response("list", c, n, NoIdentifier, NoBody, 200, "ok", NoItem)
                  EXCEPT !.count = Len(initialised[n]), !.items = initialised[n]]
     /\ dataCache' = IF collection.loaded
                       THEN [dataCache EXCEPT ![c] = Loaded(initialised)]
                       ELSE dataCache
     /\ UNCHANGED <<disk, tmp, served, saves>>

\* GET <basePath>/:nation
ListByNation(c, n) ==
  LET collection == dataCache[c]
      nationItems == collection.doc[n]
  IN /\ last' =
          IF ~collection.loaded
            THEN Response("list", c, n, NoIdentifier, NoBody, 500, "NotLoaded", NoItem)
          ELSE IF NationMissing(collection.doc, n)
            THEN [Response("list", c, n, NoIdentifier, NoBody, 404, "NotFound", NoItem)
                    EXCEPT !.available_nations = DOMAIN collection.doc]
          ELSE [Response("list", c, n, NoIdentifier, NoBody, 200, "ok", NoItem)
                  EXCEPT !.count = Len(nationItems), !.items = nationItems]
     /\ UNCHANGED <<dataCache, disk, tmp, served, saves>>

\* POST <basePath>/:nation
Create(c, n, body) ==
  LET collection == dataCache[c]
      idField == idFieldForCategory[c]
      \* if (!collection[nation]) collection[nation] = []
      initialised == [k \in (DOMAIN collection.doc) \cup {n} |->
                        IF k \in DOMAIN collection.doc THEN collection.doc[k] ELSE <<>>]
      incomingId == Get(body, idField)
      name == Get(body, "name")
      exists == DuplicateExists(initialised[n], idField, incomingId)
      newItem == NewItem(getNextIdForCategory(initialised, n), n, body)
      pushed == [initialised EXCEPT ![n] = Append(@, newItem)]
      popped == [pushed EXCEPT ![n] = SubSeq(@, 1, Len(@) - 1)]
  IN /\ served < MaxRequests
     /\ served' = served + 1
     /\ UNCHANGED saves
     /\ IF ~collection.loaded
          THEN /\ last' = Response("create", c, n, NoIdentifier, body, 500, "NotLoaded", NoItem)
               /\ UNCHANGED <<dataCache, disk, tmp>>
        ELSE IF NotNonEmptyString(incomingId) \/ NotNonEmptyString(name)
          THEN /\ dataCache' = [dataCache EXCEPT ![c] = Loaded(initialised)]
               /\ last' = WithDetails(Response("create", c, n, NoIdentifier, body, 400, "ValidationError", NoItem),
                                      RequiredMessage)
               /\ UNCHANGED <<disk, tmp>>
        ELSE IF exists
          THEN /\ dataCache' = [dataCache EXCEPT ![c] = Loaded(initialised)]
               /\ last' = Response("create", c, n, NoIdentifier, body, 409, "Conflict", NoItem)
               /\ UNCHANGED <<disk, tmp>>
        ELSE \E outcome \in SaveOutcomes :
               /\ disk' = [disk EXCEPT ![c] = saveJSONTarget(@, pushed, outcome)]
               /\ tmp' = [tmp EXCEPT ![c] = saveJSONTemp(@, pushed, outcome)]
               /\ IF saveJSONResult(outcome)
                    THEN /\ dataCache' = [dataCache EXCEPT ![c] = Loaded(pushed)]
                         /\ last' = Response("create", c, n, NoIdentifier, body, 201, "ok", newItem)
                    ELSE /\ dataCache' = [dataCache EXCEPT ![c] = Loaded(popped)]
                         /\ last' = Response("create", c, n, NoIdentifier, body, 500, "PersistenceError", NoItem)

\* PATCH <basePath>/:nation/:identifier
Update(c, n, identifier, body) ==
  LET collection == dataCache[c]
      idField == idFieldForCategory[c]
      nationItems == collection.doc[n]
      index == FindIndex(nationItems, idField, identifier)
      original == nationItems[index]
      updated == Updated(original, body, idField)
      applied == [collection.doc EXCEPT ![n][index] = updated]
      restored == [applied EXCEPT ![n][index] = original]
  IN /\ served < MaxRequests
     /\ served' = served + 1
     /\ UNCHANGED saves
     /\ IF ~collection.loaded \/ n \notin DOMAIN collection.doc
          THEN /\ last' = Response("update", c, n, identifier, body, 404, "NotFound", NoItem)
               /\ UNCHANGED <<dataCache, disk, tmp>>
        ELSE IF Len(validateGenericData(c, body, TRUE)) > 0
          THEN /\ last' = WithDetails(Response("update", c, n, identifier, body, 400, "ValidationError", NoItem),
                                      validateGenericData(c, body, TRUE))
               /\ UNCHANGED <<dataCache, disk, tmp>>
        ELSE IF index = 0
          THEN /\ last' = Response("update", c, n, identifier, body, 404, "NotFound", NoItem)
               /\ UNCHANGED <<dataCache, disk, tmp>>
        ELSE \E outcome \in SaveOutcomes :
               /\ disk' = [disk EXCEPT ![c] = saveJSONTarget(@, applied, outcome)]
               /\ tmp' = [tmp EXCEPT ![c] = saveJSONTemp(@, applied, outcome)]
               /\ IF saveJSONResult(outcome)
                    THEN /\ dataCache' = [dataCache EXCEPT ![c] = Loaded(applied)]
                         /\ last' = Response("update", c, n, identifier, body, 200, "ok", updated)
                    ELSE /\ dataCache' = [dataCache EXCEPT ![c] = Loaded(restored)]
                         /\ last' = Response("update", c, n, identifier, body, 500, "PersistenceError", NoItem)

\* a delete that removes the identified record from the list of every nation
DeleteInEveryNation(c, n, identifier) ==
  LET collection == dataCache[c]
      idField == idFieldForCategory[c]
      without(items) ==
        IF FindIndex(items, idField, identifier) = 0 THEN items
        ELSE RemoveAt(items, FindIndex(items, idField, identifier))
      spliced == [m \in DOMAIN collection.doc |-> without(collection.doc[m])]
  IN /\ served < MaxRequests
     /\ served' = served + 1
     /\ UNCHANGED saves
     /\ IF ~collection.loaded \/ n \notin DOMAIN collection.doc
          THEN /\ last' = Response("delete", c, n, identifier, NoBody, 404, "NotFound", NoItem)
               /\ UNCHANGED <<dataCache, disk, tmp>>
        ELSE IF FindIndex(collection.doc[n], idField, identifier) = 0
          THEN /\ last' = Response("delete", c, n, identifier, NoBody, 404, "NotFound", NoItem)
               /\ UNCHANGED <<dataCache, disk, tmp>>
        ELSE \E outcome \in SaveOutcomes :
               /\ disk' = [disk EXCEPT ![c] = saveJSONTarget(@, spliced, outcome)]
               /\ tmp' = [tmp EXCEPT ![c] = saveJSONTemp(@, spliced, outcome)]
               /\ IF saveJSONResult(outcome)
                    THEN /\ dataCache' = [dataCache EXCEPT ![c] = Loaded(spliced)]
                         /\ last' = Response("delete", c, n, identifier, NoBody, 204, "ok", NoItem)
                    ELSE /\ UNCHANGED dataCache
                         /\ last' = Response("delete", c, n, identifier, NoBody, 500, "PersistenceError", NoItem)

\* DELETE <basePath>/:nation/:identifier
Delete(c, n, identifier) ==
  LET collection == dataCache[c]
      idField == idFieldForCategory[c]
      nationItems == collection.doc[n]
      index == FindIndex(nationItems, idField, identifier)
      deleted == nationItems[index]
      spliced == [collection.doc EXCEPT ![n] = RemoveAt(@, index)]
      reinserted == [spliced EXCEPT ![n] = InsertAt(@, index, deleted)]
  IN /\ served < MaxRequests
     /\ served' = served + 1
     /\ UNCHANGED saves
     /\ IF ~collection.loaded \/ n \notin DOMAIN collection.doc
          THEN /\ last' = Response("delete", c, n, identifier, NoBody, 404, "NotFound", NoItem)
               /\ UNCHANGED <<dataCache, disk, tmp>>
        ELSE IF index = 0
          THEN /\ last' = Response("delete", c, n, identifier, NoBody, 404, "NotFound", NoItem)
               /\ UNCHANGED <<dataCache, disk, tmp>>
        ELSE \E outcome \in SaveOutcomes :
               /\ disk' = [disk EXCEPT ![c] = saveJSONTarget(@, spliced, outcome)]
               /\ tmp' = [tmp EXCEPT ![c] = saveJSONTemp(@, spliced, outcome)]
               /\ IF saveJSONResult(outcome)
                    THEN /\ dataCache' = [dataCache EXCEPT ![c] = Loaded(spliced)]
                         /\ last' = Response("delete", c, n, identifier, NoBody, 204, "ok", NoItem)
                    ELSE /\ dataCache' = [dataCache EXCEPT ![c] = Loaded(reinserted)]
                         /\ last' = Response("delete", c, n, identifier, NoBody, 500, "PersistenceError", NoItem)

Next ==
  \/ \E c \in RequestedCategories, n \in Nations : ListByNation(c, n)
  \/ \E c \in RequestedCategories, n \in Nations :
       \E identifier \in Identifiers \cup NonIntegerIdentifiers : GetOne(c, n, identifier)
  \/ \E c \in RequestedCategories, n \in Nations :
       \E body \in CreateBodies(c) : Create(c, n, body)
  \/ \E c \in RequestedCategories, n \in Nations, identifier \in Identifiers :
       \E body \in UpdateBodies(c) : Update(c, n, identifier, body)
  \/ \E c \in RequestedCategories, n \in Nations, identifier \in Identifiers :
       Delete(c, n, identifier)

Spec == Init /\ [][Next]_vars

(***************************************************************************)
(* saveJSON step by step.  A call serializes its data, opens <target>.tmp  *)
(* for writing (which truncates it), writes, closes, and renames the temp  *)
(* file over the target.  Each await is a point where another call, or a   *)
(* crash of the process, can come in between.                              *)
(***************************************************************************)
MaxSaves == 2

\* the documents handed to saveJSON
SaveDocs == InitDocs

\* the handler that awaits a save: none when the call is followed on its own
NoRequest ==
  [op |-> "none", nation |-> <<>>, identifier |-> <<>>, body |-> <<>>,
   index |-> 0, item |-> <<>>, before |-> <<>>, overlaps |-> {},
   status |-> 0, kind |-> "none", rolledBack |-> FALSE]

\* one call: JSON.stringify(data, null, 2) is evaluated when the call is made
Save(c, data, target) ==
  [category |-> c, text |-> Stringify(data), prior |-> target,
   pc |-> "open", file |-> "none", clean |-> TRUE, result |-> "pending",
   request |-> NoRequest]

InFlight(s) == saves[s].pc \in {"open", "writing", "rename"}

\* a save that writes straight to the target path
tempPathIsTarget == "target"

\* const tempPath = fullPath + '.tmp'
tempPath == "tmp"

\* the file found at a path of category c
FileAt(path, c) == IF path = "target" THEN disk[c] ELSE tmp[c]

\* the content of one file of category c is replaced; a file that was
\* unlinked while it was open is written without any path showing it
WriteTo(path, c, content) ==
  /\ disk' = IF path = "target" THEN [disk EXCEPT ![c] = content] ELSE disk
  /\ tmp' = IF path = "tmp" THEN [tmp EXCEPT ![c] = content] ELSE tmp

\* a handler calls saveJSON(filePathForCategory[c], data); overlap tells
\* whether the calls made earlier may still be running
saveJSONCall(c, data, overlap) ==
  /\ Len(saves) < MaxSaves
  /\ dataCache[c].loaded
  /\ overlap \/ \A s \in DOMAIN saves : ~InFlight(s)
  /\ saves' = Append(saves, Save(c, data, disk[c]))
  /\ UNCHANGED <<dataCache, disk, tmp, last, served>>

\* fs.writeFile opens the temp path with flag 'w': the file is created or
\* truncated; two calls that hold the same file open disturb each other
WriteOpen(s) ==
  LET c == saves[s].category
      sharing == {t \in DOMAIN saves : /\ t # s
                                       /\ saves[t].category = c
                                       /\ saves[t].pc = "writing"
                                       /\ saves[t].file = tempPath}
  IN /\ saves[s].pc = "open"
     /\ \/ /\ WriteTo(tempPath, c, PartialFile)
           /\ saves' = [t \in DOMAIN saves |->
                          IF t = s THEN [saves[t] EXCEPT !.pc = "writing", !.file = tempPath,
                                                         !.clean = (sharing = {})]
                          ELSE IF t \in sharing THEN [saves[t] EXCEPT !.clean = FALSE]
                          ELSE saves[t]]
        \/ /\ saves' = [saves EXCEPT ![s].pc = "done", ![s].result = "false"]
           /\ UNCHANGED <<disk, tmp>>
     /\ UNCHANGED <<dataCache, last, served>>

\* fs.writeFile writes the text and closes the file.  Alone on the file it
\* leaves the whole text; sharing it with another writer it leaves its own
\* text, what is there, or a mixture; a failed write leaves a part
WriteFinish(s) ==
  LET c == saves[s].category
      path == saves[s].file
      own == CompleteFile(saves[s].text)
  IN /\ saves[s].pc = "writing"
     /\ \/ /\ \E content \in (IF saves[s].clean THEN {own}
                              ELSE {own, FileAt(path, c), PartialFile}) :
                WriteTo(path, c, content)
           /\ saves' = [saves EXCEPT ![s].pc = "rename"]
        \/ /\ WriteTo(path, c, PartialFile)
           /\ saves' = [saves EXCEPT ![s].pc = "done", ![s].result = "false"]
     /\ UNCHANGED <<dataCache, last, served>>

\* fs.rename(tempPath, fullPath): the temp file replaces the target in one
\* step and keeps whatever writers still hold it open; it throws when the
\* temp path is gone, or for any other reason
Rename(s) ==
  LET c == saves[s].category
      moved(t) == IF saves[t].category # c \/ saves[t].pc # "writing" THEN saves[t].file
                  ELSE IF saves[t].file = "tmp" THEN "target"
                  ELSE IF saves[t].file = "target" THEN "unlinked"
                  ELSE saves[t].file
  IN /\ saves[s].pc = "rename"
     /\ \/ /\ FileAt(tempPath, c) # NoFile
           /\ IF tempPath = "target"
                THEN /\ UNCHANGED <<disk, tmp>>
                     /\ saves' = [saves EXCEPT ![s].pc = "done", ![s].result = "true"]
                ELSE /\ disk' = [disk EXCEPT ![c] = tmp[c]]
                     /\ tmp' = [tmp EXCEPT ![c] = NoFile]
                     /\ saves' = [t \in DOMAIN saves |->
                                    IF t = s THEN [saves[t] EXCEPT !.pc = "done", !.result = "true"]
                                    ELSE [saves[t] EXCEPT !.file = moved(t)]]
        \/ /\ saves' = [saves EXCEPT ![s].pc = "done", ![s].result = "false"]
           /\ UNCHANGED <<disk, tmp>>
     /\ UNCHANGED <<dataCache, last, served>>

\* the process dies between two steps; the files stay as they are and the
\* next start reads the documents again
Crash ==
  /\ \E s \in DOMAIN saves : InFlight(s)
  /\ saves' = [s \in DOMAIN saves |->
                 IF InFlight(s) THEN [saves[s] EXCEPT !.pc = "crashed"] ELSE saves[s]]
  /\ dataCache' = [c \in Categories |-> loadJSON(disk[c])]
  /\ UNCHANGED <<disk, tmp, last, served>>

\* the aircraft document is loaded; a temp file may be left from an earlier run
SaveInit ==
  /\ disk \in [Categories -> {NoFile} \cup {CompleteFile(d) : d \in InitDocs}]
  /\ disk["tanks"] = NoFile
  /\ disk["aircraft"] # NoFile
  /\ tmp \in [Categories -> {NoFile, PartialFile}]
  /\ tmp["tanks"] = NoFile
  /\ dataCache = [c \in Categories |-> loadJSON(disk[c])]
  /\ last = Response("none", "aircraft", usa, NoIdentifier, NoBody, 0, "none", NoItem)
  /\ served = 0
  /\ saves = <<>>

SaveSteps ==
  \/ \E s \in DOMAIN saves : WriteOpen(s)
  \/ \E s \in DOMAIN saves : WriteFinish(s)
  \/ \E s \in DOMAIN saves : Rename(s)
  \/ Crash

\* one save at a time, as when requests are served one after the other
SingleSaveNext ==
  \/ \E c \in RequestedCategories, data \in SaveDocs : saveJSONCall(c, data, FALSE)
  \/ SaveSteps

SingleSaveSpec == SaveInit /\ [][SingleSaveNext]_vars

\* saves of requests in flight at the same time
OverlappingSavesNext ==
  \/ \E c \in RequestedCategories, data \in SaveDocs : saveJSONCall(c, data, TRUE)
  \/ SaveSteps

OverlappingSavesSpec == SaveInit /\ [][OverlappingSavesNext]_vars

(***************************************************************************)
(* The flattened list endpoint on its own: documents with several records  *)
(* per nation, and the query parameters a client can send.                 *)
(***************************************************************************)
\* ?q=: absent, matching some records in either letter case, matching none
Queries ==
  {Undefined, Str(<<"a">>), Str(<<"N">>), Str(<<"z">>)}

\* ?page=: absent, zero, negative, and pages 1 to 3
PageParams ==
  {Undefined, Str(<<"0">>), Str(<<"-", "1">>),
   Str(<<"1">>), Str(<<"2">>), Str(<<"3">>)}

\* ?limit=: absent, zero, negative, small, and above the maximum
LimitParams ==
  {Undefined, Str(<<"0">>), Str(<<"-", "1">>), Str(<<"1">>), Str(<<"2">>),
   Str(<<"1", "0", "1">>)}

\* the aircraft documents listed
ListDocs ==
  {<<>>,
   [n \in {usa} |-> <<Item("aircraftid", 1, usa, <<"a">>, NameN)>>],
   [n \in {usa, uk} |->
      IF n = usa
        THEN <<Item("aircraftid", 1, usa, <<"a">>, NameN),
               Item("aircraftid", 2, usa, <<"1">>, NameM),
               Item("aircraftid", 3, usa, <<"x">>, Str(<<"A", "n">>))>>
        ELSE <<Item("aircraftid", 1, uk, <<"a">>, NameM),
               Item("aircraftid", 2, uk, <<"2">>, NameN)>>]}

ListInit ==
  /\ disk \in [Categories -> {NoFile} \cup {CompleteFile(d) : d \in ListDocs}]
  /\ disk["tanks"] = NoFile
  /\ tmp = [c \in Categories |-> NoFile]
  /\ dataCache = [c \in Categories |-> loadJSON(disk[c])]
  /\ last = Response("none", "aircraft", usa, NoIdentifier, NoBody, 0, "none", NoItem)
  /\ served = 0
  /\ saves = <<>>

ListNext ==
  \E c \in RequestedCategories, q \in Queries :
    \E pageParam \in PageParams, limitParam \in LimitParams :
      GetAll(c, q, pageParam, limitParam)

ListSpec == ListInit /\ [][ListNext]_vars

(***************************************************************************)
(* The aircraft-specific POST handler of src/server.js, next to the        *)
(* generic one, both fed the same requests.                                *)
(***************************************************************************)
\* request bodies whose id-field or name is present but is a number
NonStringBodies(c) ==
  LET idField == idFieldForCategory[c]
  IN {[k \in {idField, "name"} |-> IF k = "name" THEN NameN ELSE Num(5)],
      [k \in {idField, "name"} |-> IF k = "name" THEN Num(5) ELSE Str(<<"a">>)]}

\* what becomes of an exception thrown in an async handler: the request is
\* left unanswered (the rejection is not handled), or the error middleware
\* answers 500 "Internal server error"
ThrownOutcomes == {"unanswered", "errorMiddleware"}

\* aircraftid.trim() === '' || name.trim() === '' throws a TypeError when the
\* value whose trim is called is not a string
TrimThrows(aircraftid, name) ==
  \/ TypeOf(aircraftid) # "string"
  \/ Trim(aircraftid.s) # <<>> /\ TypeOf(name) # "string"

\* the record built by the aircraft create:
\* { id: getNextAircraftId(nation), aircraftid, name, nation, ...req.body }
NewAircraft(nextId, nation, body) ==
  Spread([k \in {"id", "aircraftid", "name", "nation"} |->
            CASE k = "id" -> nextId
              [] k = "nation" -> Str(nation)
              [] OTHER -> Get(body, k)],
         body)

\* POST /api/vehicles/aviation/aircraft/:nation of src/server.js
CreateAircraft(n, body) ==
  LET c == "aircraft"
      aircraft == dataCache[c]
      initialised == [k \in (DOMAIN aircraft.doc) \cup {n} |->
                        IF k \in DOMAIN aircraft.doc THEN aircraft.doc[k] ELSE <<>>]
      aircraftid == Get(body, "aircraftid")
      name == Get(body, "name")
      exists == \E i \in 1..Len(initialised[n]) :
                  StrictEq(Get(initialised[n][i], "aircraftid"), aircraftid)
      newAircraft == NewAircraft(getNextIdForCategory(initialised, n), n, body)
      pushed == [initialised EXCEPT ![n] = Append(@, newAircraft)]
      response(status, kind, item) ==
        Response("createAircraft", c, n, NoIdentifier, body, status, kind, item)
  IN /\ served < MaxRequests
     /\ served' = served + 1
     /\ UNCHANGED saves
     /\ IF ~aircraft.loaded
          THEN /\ last' = response(500, "NotLoaded", NoItem)
               /\ UNCHANGED <<dataCache, disk, tmp>>
        ELSE IF ~Truthy(aircraftid) \/ ~Truthy(name)
          THEN /\ dataCache' = [dataCache EXCEPT ![c] = Loaded(initialised)]
               /\ last' = WithDetails(response(400, "ValidationError", NoItem), RequiredMessage)
               /\ UNCHANGED <<disk, tmp>>
        ELSE IF TrimThrows(aircraftid, name)
          THEN /\ dataCache' = [dataCache EXCEPT ![c] = Loaded(initialised)]
               /\ \E thrown \in ThrownOutcomes :
                    last' = IF thrown = "unanswered"
                              THEN response(0, "Thrown", NoItem)
                              ELSE response(500, "InternalError", NoItem)
               /\ UNCHANGED <<disk, tmp>>
        ELSE IF Trim(aircraftid.s) = <<>> \/ Trim(name.s) = <<>>
          THEN /\ dataCache' = [dataCache EXCEPT ![c] = Loaded(initialised)]
               /\ last' = WithDetails(response(400, "ValidationError", NoItem), RequiredMessage)
               /\ UNCHANGED <<disk, tmp>>
        ELSE IF exists
          THEN /\ dataCache' = [dataCache EXCEPT ![c] = Loaded(initialised)]
               /\ last' = response(409, "Conflict", NoItem)
               /\ UNCHANGED <<disk, tmp>>
        ELSE \E outcome \in SaveOutcomes :
               /\ disk' = [disk EXCEPT ![c] = saveJSONTarget(@, pushed, outcome)]
               /\ tmp' = [tmp EXCEPT ![c] = saveJSONTemp(@, pushed, outcome)]
               /\ dataCache' = [dataCache EXCEPT ![c] = Loaded(pushed)]
               /\ last' = IF saveJSONResult(outcome)
                            THEN response(201, "ok", newAircraft)
                            ELSE response(500, "PersistenceError", NoItem)

CreateNext ==
  \/ \E c \in RequestedCategories, n \in Nations :
       \E body \in CreateBodies(c) \cup NonStringBodies(c) : Create(c, n, body)
  \/ \E n \in Nations :
       \E body \in CreateBodies("aircraft") \cup NonStringBodies("aircraft") :
         CreateAircraft(n, body)

CreateSpec == Init /\ [][CreateNext]_vars

(***************************************************************************)
(* All read handlers of a category next to the mutating ones.              *)
(***************************************************************************)
ReadNext ==
  \/ Next
  \/ \E c \in RequestedCategories, q \in {Undefined, Str(<<"a">>)} :
       \E limitParam \in {Undefined, Str(<<"1">>)} :
         GetAll(c, q, Undefined, limitParam)

ReadSpec == Init /\ [][ReadNext]_vars

(***************************************************************************)
(* Requests in flight together.  A handler runs without interruption up to *)
(* its await saveJSON(...): it validates, resolves, applies the change to  *)
(* the shared collection and makes the call.  Other handlers run while the *)
(* save is pending.  When the save has returned the handler resumes, rolls *)
(* back if the save failed, and responds.                                  *)
(***************************************************************************)
\* an array position that was never assigned; JSON.stringify writes null
Hole == <<>>

\* the request of a handler waiting for its save: what it resolved and
\* applied, the list as it was just before, and the saves that were in
\* flight when it made its call
Request(op, n, identifier, body, index, item, before) ==
  [op |-> op, nation |-> n, identifier |-> identifier, body |-> body,
   index |-> index, item |-> item, before |-> before,
   overlaps |-> {t \in DOMAIN saves : InFlight(t)},
   status |-> 0, kind |-> "pending", rolledBack |-> FALSE]

\* the handler calls saveJSON(filePathForCategory[category], collection)
\* and awaits it
AwaitSave(c, data, request) ==
  saves' = Append(saves, [Save(c, data, disk[c]) EXCEPT !.request = request])

\* find / findIndex call their predicate on every position up to the first
\* match; on a hole the predicate reads a property of undefined and throws
FindThrows(items, hits) ==
  \E i \in 1..Len(items) :
    items[i] = Hole /\ \A h \in hits : i < h

\* the handler ends with an exception: see ThrownOutcomes
Throw(op, c, n, identifier, body) ==
  \E thrown \in ThrownOutcomes :
    last' = IF thrown = "unanswered"
              THEN Response(op, c, n, identifier, body, 0, "Thrown", NoItem)
              ELSE Response(op, c, n, identifier, body, 500, "InternalError", NoItem)

\* POST <basePath>/:nation, up to await saveJSON
CreateToAwait(c, n, body) ==
  LET collection == dataCache[c]
      idField == idFieldForCategory[c]
      initialised == [k \in (DOMAIN collection.doc) \cup {n} |->
                        IF k \in DOMAIN collection.doc THEN collection.doc[k] ELSE <<>>]
      incomingId == Get(body, idField)
      name == Get(body, "name")
      duplicates == {i \in 1..Len(initialised[n]) :
                       StrictEq(Get(initialised[n][i], idField), incomingId)}
      newItem == NewItem(getNextIdForCategory(initialised, n), n, body)
      pushed == [initialised EXCEPT ![n] = Append(@, newItem)]
  IN /\ served < MaxRequests
     /\ served' = served + 1
     /\ IF ~collection.loaded
          THEN /\ last' = Response("create", c, n, NoIdentifier, body, 500, "NotLoaded", NoItem)
               /\ UNCHANGED <<dataCache, disk, tmp, saves>>
        ELSE IF NotNonEmptyString(incomingId) \/ NotNonEmptyString(name)
          THEN /\ dataCache' = [dataCache EXCEPT ![c] = Loaded(initialised)]
               /\ last' = WithDetails(Response("create", c, n, NoIdentifier, body, 400, "ValidationError", NoItem),
                                      RequiredMessage)
               /\ UNCHANGED <<disk, tmp, saves>>
        ELSE IF FindThrows(initialised[n], duplicates)
          THEN /\ dataCache' = [dataCache EXCEPT ![c] = Loaded(initialised)]
               /\ Throw("create", c, n, NoIdentifier, body)
               /\ UNCHANGED <<disk, tmp, saves>>
        ELSE IF duplicates # {}
          THEN /\ dataCache' = [dataCache EXCEPT ![c] = Loaded(initialised)]
               /\ last' = Response("create", c, n, NoIdentifier, body, 409, "Conflict", NoItem)
               /\ UNCHANGED <<disk, tmp, saves>>
        ELSE /\ dataCache' = [dataCache EXCEPT ![c] = Loaded(pushed)]
             /\ AwaitSave(c, pushed,
                          Request("create", n, NoIdentifier, body, Len(pushed[n]), newItem, initialised[n]))
             /\ UNCHANGED <<disk, tmp, last>>

\* PATCH <basePath>/:nation/:identifier, up to await saveJSON
UpdateToAwait(c, n, identifier, body) ==
  LET collection == dataCache[c]
      idField == idFieldForCategory[c]
      nationItems == collection.doc[n]
      index == FindIndex(nationItems, idField, identifier)
      original == nationItems[index]
      updated == Updated(original, body, idField)
      applied == [collection.doc EXCEPT ![n][index] = updated]
  IN /\ served < MaxRequests
     /\ served' = served + 1
     /\ IF ~collection.loaded \/ n \notin DOMAIN collection.doc
          THEN /\ last' = Response("update", c, n, identifier, body, 404, "NotFound", NoItem)
               /\ UNCHANGED <<dataCache, disk, tmp, saves>>
        ELSE IF Len(validateGenericData(c, body, TRUE)) > 0
          THEN /\ last' = WithDetails(Response("update", c, n, identifier, body, 400, "ValidationError", NoItem),
                                      validateGenericData(c, body, TRUE))
               /\ UNCHANGED <<dataCache, disk, tmp, saves>>
        ELSE IF FindThrows(nationItems, {i \in 1..Len(nationItems) : Matches(nationItems[i], idField, identifier)})
          THEN /\ Throw("update", c, n, identifier, body)
               /\ UNCHANGED <<dataCache, disk, tmp, saves>>
        ELSE IF index = 0
          THEN /\ last' = Response("update", c, n, identifier, body, 404, "NotFound", NoItem)
               /\ UNCHANGED <<dataCache, disk, tmp, saves>>
        ELSE /\ dataCache' = [dataCache EXCEPT ![c] = Loaded(applied)]
             /\ AwaitSave(c, applied,
                          Request("update", n, identifier, body, index, original, nationItems))
             /\ UNCHANGED <<disk, tmp, last>>

\* DELETE <basePath>/:nation/:identifier, up to await saveJSON
DeleteToAwait(c, n, identifier) ==
  LET collection == dataCache[c]
      idField == idFieldForCategory[c]
      nationItems == collection.doc[n]
      index == FindIndex(nationItems, idField, identifier)
      deleted == nationItems[index]
      spliced == [collection.doc EXCEPT ![n] = RemoveAt(@, index)]
  IN /\ served < MaxRequests
     /\ served' = served + 1
     /\ IF ~collection.loaded \/ n \notin DOMAIN collection.doc
          THEN /\ last' = Response("delete", c, n, identifier, NoBody, 404, "NotFound", NoItem)
               /\ UNCHANGED <<dataCache, disk, tmp, saves>>
        ELSE IF FindThrows(nationItems, {i \in 1..Len(nationItems) : Matches(nationItems[i], idField, identifier)})
          THEN /\ Throw("delete", c, n, identifier, NoBody)
               /\ UNCHANGED <<dataCache, disk, tmp, saves>>
        ELSE IF index = 0
          THEN /\ last' = Response("delete", c, n, identifier, NoBody, 404, "NotFound", NoItem)
               /\ UNCHANGED <<dataCache, disk, tmp, saves>>
        ELSE /\ dataCache' = [dataCache EXCEPT ![c] = Loaded(spliced)]
             /\ AwaitSave(c, spliced,
                          Request("delete", n, identifier, NoBody, index, deleted, nationItems))
             /\ UNCHANGED <<disk, tmp, last>>

\* collection[nation].pop()
Pop(items) == SubSeq(items, 1, Len(items) - 1)

\* nationItems[index] = original: an index past the end lengthens the array
\* and leaves holes in between
AssignAt(items, index, item) ==
  [i \in 1..(IF index > Len(items) THEN index ELSE Len(items)) |->
     IF i = index THEN item
     ELSE IF i <= Len(items) THEN items[i]
     ELSE Hole]

\* nationItems.splice(index, 0, deleted): a start past the end is the end
SpliceIn(items, index, item) ==
  InsertAt(items, IF index > Len(items) + 1 THEN Len(items) + 1 ELSE index, item)

\* the rollback of each handler, applied to the list as it is by then
RolledBack(items, request) ==
  CASE request.op = "create" -> Pop(items)
    [] request.op = "update" -> AssignAt(items, request.index, request.item)
    [] request.op = "delete" -> SpliceIn(items, request.index, request.item)

\* a handler that resumes only when no save at all is in flight
EverySaveReturned(s) == \A t \in DOMAIN saves : saves[t].pc = "done"

\* a handler that goes on without waiting for the save
SaveNotAwaited(s) == TRUE

\* const saved = await saveJSON(...): the handler resumes when the save
\* has returned
SaveReturned(s) == saves[s].pc = "done"

\* the handler after its await: rollback and 500 if the save failed,
\* 201 / 200 / 204 otherwise
ResumeAfterSave(s) ==
  LET c == saves[s].category
      request == saves[s].request
      n == request.nation
  IN /\ request.op # "none"
     /\ request.status = 0
     /\ SaveReturned(s)
     /\ IF saves[s].result = "true"
          THEN /\ saves' = [saves EXCEPT ![s].request.status =
                                           (CASE request.op = "create" -> 201
                                              [] request.op = "update" -> 200
                                              [] request.op = "delete" -> 204),
                                         ![s].request.kind = "ok"]
               /\ UNCHANGED dataCache
          ELSE /\ dataCache' = [dataCache EXCEPT ![c].doc[n] = RolledBack(@, request)]
               /\ saves' = [saves EXCEPT ![s].request.status = 500,
                                         ![s].request.kind = "PersistenceError",
                                         ![s].request.rolledBack = TRUE]
     /\ UNCHANGED <<disk, tmp, last, served>>

\* the usa list in memory and on disk when the requests arrive
ConcurrentDoc ==
  [n \in {usa} |-> <<Item("aircraftid", 1, usa, <<"a">>, NameN),
                     Item("aircraftid", 2, usa, <<"b">>, NameN),
                     Item("aircraftid", 3, usa, <<"c">>, NameN)>>]

ConcurrentInit ==
  /\ disk = [c \in Categories |->
               IF c = "aircraft" THEN CompleteFile(ConcurrentDoc) ELSE NoFile]
  /\ tmp = [c \in Categories |-> NoFile]
  /\ dataCache = [c \in Categories |-> loadJSON(disk[c])]
  /\ last = Response("none", "aircraft", usa, NoIdentifier, NoBody, 0, "none", NoItem)
  /\ served = 0
  /\ saves = <<>>

\* the continuation of an await runs as a microtask when the awaited promise
\* settles, before any other request handler or file-system callback: while
\* a handler whose save has returned has not resumed, nothing else runs
NoneResuming ==
  \A s \in DOMAIN saves :
    ~(saves[s].request.op # "none" /\ saves[s].request.status = 0 /\ saves[s].pc = "done")

\* the key of the next create: x, and y once a create of x reached its save
NewKeys ==
  IF \E s \in DOMAIN saves : saves[s].request.op = "create"
    THEN {<<"y">>} ELSE {<<"x">>}

\* creates of two new records, an update of the second record and deletes of
\* the first two records, all on the usa list of aircraft
ConcurrentNext ==
  \/ /\ NoneResuming
     /\ \E key \in NewKeys :
          CreateToAwait("aircraft", usa, [aircraftid |-> Str(key), name |-> NameN])
  \/ /\ NoneResuming
     /\ UpdateToAwait("aircraft", usa, <<"b">>, [name |-> NameM])
  \/ /\ NoneResuming
     /\ \E identifier \in {<<"a">>, <<"b">>} : DeleteToAwait("aircraft", usa, identifier)
  \/ /\ NoneResuming
     /\ \E s \in DOMAIN saves : WriteOpen(s)
  \/ /\ NoneResuming
     /\ \E s \in DOMAIN saves : WriteFinish(s)
  \/ /\ NoneResuming
     /\ \E s \in DOMAIN saves : Rename(s)
  \/ \E s \in DOMAIN saves : ResumeAfterSave(s)

ConcurrentSpec == ConcurrentInit /\ [][ConcurrentNext]_vars

\* deletes of the first two records and creates that carry their id-field
\* values again, all on the usa list of aircraft
RecreateNext ==
  \/ /\ NoneResuming
     /\ \E identifier \in {<<"a">>, <<"b">>} : DeleteToAwait("aircraft", usa, identifier)
  \/ /\ NoneResuming
     /\ \E key \in {<<"a">>, <<"b">>} :
          CreateToAwait("aircraft", usa, [aircraftid |-> Str(key), name |-> NameM])
  \/ /\ NoneResuming
     /\ \E s \in DOMAIN saves : WriteOpen(s)
  \/ /\ NoneResuming
     /\ \E s \in DOMAIN saves : WriteFinish(s)
  \/ /\ NoneResuming
     /\ \E s \in DOMAIN saves : Rename(s)
  \/ \E s \in DOMAIN saves : ResumeAfterSave(s)

RecreateSpec == ConcurrentInit /\ [][RecreateNext]_vars

\* the create of aircraft x that is waiting for its save when the further
\* requests arrive
PendingCreate ==
  [NoRequest EXCEPT !.op = "create", !.nation = usa,
                    !.body = [aircraftid |-> Str(<<"x">>), name |-> NameN],
                    !.index = Len(ConcurrentDoc[usa]) + 1,
                    !.item = NewItem(getNextIdForCategory(ConcurrentDoc, usa), usa,
                                     [aircraftid |-> Str(<<"x">>), name |-> NameN]),
                    !.before = ConcurrentDoc[usa],
                    !.kind = "pending"]

\* POST .../usa {aircraftid: 'x', name: 'n'} has pushed its record and made
\* its save call; served counts the requests that arrive from here on
PendingCreateInit ==
  /\ disk = [c \in Categories |->
               IF c = "aircraft" THEN CompleteFile(ConcurrentDoc) ELSE NoFile]
  /\ tmp = [c \in Categories |-> NoFile]
  /\ dataCache = [c \in Categories |->
                    IF c = "aircraft"
                      THEN Loaded([ConcurrentDoc EXCEPT ![usa] = Append(@, PendingCreate.item)])
                      ELSE NotLoaded]
  /\ last = Response("none", "aircraft", usa, NoIdentifier, NoBody, 0, "none", NoItem)
  /\ served = 0
  /\ saves = <<[Save("aircraft", dataCache["aircraft"].doc, disk["aircraft"])
                  EXCEPT !.request = PendingCreate]>>

\* creates of x and y and deletes of x, all on the usa list of aircraft
PendingCreateNext ==
  \/ /\ NoneResuming
     /\ \E key \in {<<"x">>, <<"y">>} :
          CreateToAwait("aircraft", usa, [aircraftid |-> Str(key), name |-> NameN])
  \/ /\ NoneResuming
     /\ DeleteToAwait("aircraft", usa, <<"x">>)
  \/ /\ NoneResuming
     /\ \E s \in DOMAIN saves : WriteOpen(s)
  \/ /\ NoneResuming
     /\ \E s \in DOMAIN saves : WriteFinish(s)
  \/ /\ NoneResuming
     /\ \E s \in DOMAIN saves : Rename(s)
  \/ \E s \in DOMAIN saves : ResumeAfterSave(s)

PendingCreateSpec == PendingCreateInit /\ [][PendingCreateNext]_vars

\* a create of x, an update and a delete of the second record, and reads of
\* both records by identifier, all on the usa list of aircraft
ReadDuringSaveNext ==
  \/ /\ NoneResuming
     /\ CreateToAwait("aircraft", usa, [aircraftid |-> Str(<<"x">>), name |-> NameN])
  \/ /\ NoneResuming
     /\ UpdateToAwait("aircraft", usa, <<"b">>, [name |-> NameM])
  \/ /\ NoneResuming
     /\ DeleteToAwait("aircraft", usa, <<"b">>)
  \/ /\ NoneResuming
     /\ \E identifier \in {<<"x">>, <<"b">>} : GetOne("aircraft", usa, identifier)
  \/ /\ NoneResuming
     /\ \E s \in DOMAIN saves : WriteOpen(s)
  \/ /\ NoneResuming
     /\ \E s \in DOMAIN saves : WriteFinish(s)
  \/ /\ NoneResuming
     /\ \E s \in DOMAIN saves : Rename(s)
  \/ \E s \in DOMAIN saves : ResumeAfterSave(s)

ReadDuringSaveSpec == ConcurrentInit /\ [][ReadDuringSaveNext]_vars

(***************************************************************************)
(* Several categories and nations.  Both category documents are loaded,    *)
(* the nations document is loaded or missing, and every category and       *)
(* nation receives creates, updates and deletes.                           *)
(***************************************************************************)
\* data/nations/nations.json: an array of nation objects
NationsDoc == <<[id |-> Str(usa)], [id |-> Str(uk)]>>

\* the documents on disk at startup: aircraft of two nations, tanks of one
FrameDocs ==
  [aircraft |-> [n \in {usa, uk} |-> <<Item("aircraftid", 1, n, <<"a">>, NameN)>>],
   tanks |-> [n \in {usa} |-> <<Item("tankid", 1, n, <<"a">>, NameN)>>]]

\* preloadData: dataCache.nations and every dataCache.vehicles[category]
FrameInit ==
  /\ disk = [c \in Categories |-> CompleteFile(FrameDocs[c])]
  /\ tmp = [c \in Categories |-> NoFile]
  /\ \E nations \in {NotLoaded, Loaded(NationsDoc)} :
       dataCache = [k \in Categories \cup {"nations"} |->
                      IF k = "nations" THEN nations ELSE loadJSON(disk[k])]
  /\ last = Response("none", "aircraft", usa, NoIdentifier, NoBody, 0, "none", NoItem)
  /\ served = 0
  /\ saves = <<>>

\* GET /api/nations
GetNations ==
  LET response(status, kind) ==
        Response("nations", "nations", <<>>, NoIdentifier, NoBody, status, kind, NoItem)
  IN /\ served < MaxRequests
     /\ served' = served + 1
     /\ last' = IF ~dataCache["nations"].loaded
                  THEN response(500, "NotLoaded")
                  ELSE [response(200, "ok") EXCEPT !.items = dataCache["nations"].doc]
     /\ UNCHANGED <<dataCache, disk, tmp, saves>>

FrameNext ==
  \/ GetNations
  \/ \E c \in Categories, n \in Nations :
       \E key \in {<<"a">>, <<"x">>} :
         Create(c, n, [k \in {idFieldForCategory[c], "name"} |->
                         IF k = "name" THEN NameN ELSE Str(key)])
  \/ \E c \in Categories, n \in Nations : Update(c, n, <<"a">>, [name |-> NameM])
  \/ \E c \in Categories, n \in Nations : Delete(c, n, <<"a">>)

FrameSpec == FrameInit /\ [][FrameNext]_vars

(***************************************************************************)
(* Stalled saves.  Requests on two loaded categories; a save makes its     *)
(* next step only when the file system gets to it.  The event loop runs    *)
(* the continuation of a handler whose save has returned; the file system  *)
(* is assumed to complete the operations on the tanks file, while the      *)
(* operations on the aircraft file may never complete.                     *)
(***************************************************************************)
StallInit ==
  /\ disk = [c \in Categories |-> CompleteFile(FrameDocs[c])]
  /\ tmp = [c \in Categories |-> NoFile]
  /\ dataCache = [c \in Categories |-> loadJSON(disk[c])]
  /\ last = Response("none", "aircraft", usa, NoIdentifier, NoBody, 0, "none", NoItem)
  /\ served = 0
  /\ saves = <<>>

\* one step of the save s: open, write or rename
SaveStep(s) ==
  /\ NoneResuming
  /\ s \in DOMAIN saves
  /\ (WriteOpen(s) \/ WriteFinish(s) \/ Rename(s))

\* the handler of save s resumes
Resume(s) == s \in DOMAIN saves /\ ResumeAfterSave(s)

\* creates of x on the usa list of each category, deletes of a on that of tanks
StallNext ==
  \/ /\ NoneResuming
     /\ \E c \in Categories :
          CreateToAwait(c, usa, [k \in {idFieldForCategory[c], "name"} |->
                                   IF k = "name" THEN NameN ELSE Str(<<"x">>)])
  \/ /\ NoneResuming
     /\ DeleteToAwait("tanks", usa, <<"a">>)
  \/ \E s \in 1..MaxRequests : SaveStep(s)
  \/ \E s \in 1..MaxRequests : Resume(s)

StallSpec ==
  /\ StallInit /\ [][StallNext]_vars
  /\ \A s \in 1..MaxRequests : WF_vars(Resume(s))
  /\ \A s \in 1..MaxRequests : WF_vars(SaveStep(s) /\ saves[s].category = "tanks")

(***************************************************************************)
(* Properties                                                              *)
(***************************************************************************)
MutatingOps == {"create", "update", "delete"}

\* the in-memory list of a nation, empty when the nation key is absent
ItemsOf(cache, c, n) ==
  IF n \in DOMAIN cache[c].doc THEN cache[c].doc[n] ELSE <<>>

\* C1: whenever the save of a create, update or delete fails, the in-memory
\* collection of the category after the request (nation keys and every
\* nation's list) equals the collection before the request.
C1_FailedSaveRestoresCollection ==
  [][(served' = served + 1 /\ last'.kind = "PersistenceError")
       => dataCache'[last'.category] = dataCache[last'.category]]_vars

\* C2: right after a create, update or delete acknowledged with success, the
\* document on disk equals the in-memory collection of that category.
C2_DiskEqualsMemoryAfterSuccess ==
  (last.op \in MutatingOps /\ last.kind = "ok")
    => disk[last.category] = CompleteFile(dataCache[last.category].doc)

\* C3: no two records of one (category, nation) list have the same id-field
\* value.
C3_IdFieldUnique ==
  \A c \in Categories : \A n \in DOMAIN dataCache[c].doc :
    \A i, j \in 1..Len(dataCache[c].doc[n]) :
      i # j => Get(dataCache[c].doc[n][i], idFieldForCategory[c])
                 # Get(dataCache[c].doc[n][j], idFieldForCategory[c])

\* an accepted update whose body carried the id-field value of a sibling
C3_Witness ==
  /\ last.op = "update"
  /\ last.kind = "ok"
  /\ LET idField == idFieldForCategory[last.category]
         items == ItemsOf(dataCache, last.category, last.nation)
     IN /\ idField \in DOMAIN last.body
        /\ \E i \in 1..Len(items) :
             /\ items[i] # last.item
             /\ Get(items[i], idField) = last.body[idField]

\* C4: no two records of one (category, nation) list have the same numeric id.
C4_NumericIdUnique ==
  \A c \in Categories : \A n \in DOMAIN dataCache[c].doc :
    \A i, j \in 1..Len(dataCache[c].doc[n]) :
      i # j => Get(dataCache[c].doc[n][i], "id") # Get(dataCache[c].doc[n][j], "id")

\* one plus the maximum numeric id of a list, 1 for a list without any
FreshId(items) ==
  LET ids == {Get(items[i], "id").n :
                i \in {j \in 1..Len(items) : Get(items[j], "id").t = "number"}}
  IN IF ids = {} THEN Num(1)
     ELSE Num(1 + CHOOSE m \in ids : \A k \in ids : k <= m)

\* C5: the id of the record stored and returned by an accepted create is one
\* plus the maximum id of the nation's list before the create, or 1 when the
\* list was empty.
C5_CreatedIdIsMaxPlusOne ==
  [][(served' = served + 1 /\ last'.op = "create" /\ last'.kind = "ok")
       => LET before == ItemsOf(dataCache, last'.category, last'.nation)
              after == ItemsOf(dataCache', last'.category, last'.nation)
          IN /\ Get(last'.item, "id") = FreshId(before)
             /\ Get(after[Len(after)], "id") = FreshId(before)]_vars

\* C6: a record created on path nation n is the last record of the list of n
\* and carries nation = n, and every record of every list keeps the nation
\* of its list.
C6_NationFromPath ==
  /\ (last.op = "create" /\ last.kind = "ok")
       => LET items == ItemsOf(dataCache, last.category, last.nation)
          IN /\ items # <<>>
             /\ items[Len(items)] = last.item
             /\ Get(last.item, "nation") = Str(last.nation)
  /\ \A c \in Categories : \A n \in DOMAIN dataCache[c].doc :
       \A i \in 1..Len(dataCache[c].doc[n]) :
         Get(dataCache[c].doc[n][i], "nation") = Str(n)

\* C7: a PATCH that resolves a record leaves id, nation and the id-field of
\* the stored record as they were, and the returned record carries the same
\* three values.
C7_UpdateKeepsKeyFields ==
  [][(served' = served + 1 /\ last'.op = "update"
        /\ last'.kind \in {"ok", "PersistenceError"})
       => LET c == last'.category
              idField == idFieldForCategory[c]
              before == ItemsOf(dataCache, c, last'.nation)
              after == ItemsOf(dataCache', c, last'.nation)
              index == FindIndex(before, idField, last'.identifier)
          IN /\ index # 0
             /\ Len(after) = Len(before)
             /\ \A k \in {"id", "nation", idField} :
                  /\ Get(after[index], k) = Get(before[index], k)
                  /\ last'.kind = "ok" => Get(last'.item, k) = Get(before[index], k)]_vars

\* an accepted update whose body gave other values for all three fields
C7_Witness ==
  /\ last.op = "update"
  /\ last.kind = "ok"
  /\ \A k \in {"id", "nation", idFieldForCategory[last.category]} :
       k \in DOMAIN last.body /\ last.body[k] # Get(last.item, k)
  /\ Get(last.item, "name") = Get(last.body, "name")

\* C8: a create that passes the required-field checks is answered 409 and
\* changes nothing when its id-field value is already in the list of the same
\* nation; otherwise (also when another nation holds that value) it is
\* accepted and, once saved, appended.
C8_ConflictOnlyWithinNation ==
  [][(served' = served + 1 /\ last'.op = "create" /\ dataCache[last'.category].loaded
        /\ ~NotNonEmptyString(Get(last'.body, idFieldForCategory[last'.category]))
        /\ ~NotNonEmptyString(Get(last'.body, "name")))
       => LET c == last'.category
              idField == idFieldForCategory[c]
              before == ItemsOf(dataCache, c, last'.nation)
              after == ItemsOf(dataCache', c, last'.nation)
              taken == \E i \in 1..Len(before) :
                         Get(before[i], idField) = last'.body[idField]
          IN IF taken
               THEN /\ last'.status = 409
                    /\ dataCache' = dataCache
                    /\ disk' = disk
               ELSE /\ last'.status \in {201, 500}
                    /\ last'.status = 201 =>
                         /\ Len(after) = Len(before) + 1
                         /\ Get(after[Len(after)], idField) = last'.body[idField]]_vars

\* a create answered 409 in one nation while another nation of the same
\* category holds a record with the same id-field value
C8_Witness ==
  /\ last.op = "create"
  /\ last.status = 409
  /\ LET c == last.category
         idField == idFieldForCategory[c]
     IN \E n, m \in DOMAIN dataCache[c].doc :
          /\ n = last.nation
          /\ m # n
          /\ \E i \in 1..Len(dataCache[c].doc[n]), j \in 1..Len(dataCache[c].doc[m]) :
               /\ Get(dataCache[c].doc[n][i], idField) = last.body[idField]
               /\ Get(dataCache[c].doc[m][j], idField) = last.body[idField]

DigitChar(d) ==
  CASE d = 0 -> "0" [] d = 1 -> "1" [] d = 2 -> "2" [] d = 3 -> "3" [] d = 4 -> "4"
    [] d = 5 -> "5" [] d = 6 -> "6" [] d = 7 -> "7" [] d = 8 -> "8" [] d = 9 -> "9"

\* the decimal digits of a natural number, as a client writes it in the path
RECURSIVE NumberToString(_)
NumberToString(k) ==
  IF k < 10 THEN <<DigitChar(k)>>
  ELSE NumberToString(k \div 10) \o <<DigitChar(k % 10)>>

\* C9: right after a successful create, Get-one with the created record's
\* id-field value and Get-one with its numeric id both return the created
\* record.
C9_CreateThenGetRoundTrip ==
  (last.op = "create" /\ last.kind = "ok")
    => LET idField == idFieldForCategory[last.category]
           items == ItemsOf(dataCache, last.category, last.nation)
           id == Get(last.item, "id")
       IN /\ Find(items, idField, Get(last.item, idField).s) = last.item
          /\ (id.t = "number" /\ id.n >= 0)
               => Find(items, idField, NumberToString(id.n)) = last.item

\* an optional sign followed by decimal digits only
IsBase10Integer(cs) ==
  LET u == IF cs # <<>> /\ Head(cs) \in {"+", "-"} THEN Tail(cs) ELSE cs
  IN u # <<>> /\ AllIn(u, DecDigits)

\* C10: an identifier that is not entirely a base-10 integer resolves a
\* record only through an exactly equal id-field value.
C10_NonIntegerResolvesByIdFieldOnly ==
  (last.op \in {"get", "update"} /\ last.kind = "ok" /\ ~IsBase10Integer(last.identifier))
    => Get(last.item, idFieldForCategory[last.category]) = Str(last.identifier)


\* the records of a list that an identifier resolves to
MatchesOf(nationItems, idField, identifier) ==
  {i \in 1..Len(nationItems) : Matches(nationItems[i], idField, identifier)}

\* C11: in every nation list, for every identifier string, at most one
\* record matches the identifier (by id-field equality or by numeric id).
C11_AtMostOneMatch ==
  \A c \in Categories : \A n \in DOMAIN dataCache[c].doc :
    \A identifier \in Identifiers \cup NonIntegerIdentifiers :
      Cardinality(MatchesOf(dataCache[c].doc[n], idFieldForCategory[c], identifier)) <= 1

\* C12: right after a delete of identifier x was acknowledged with 204, x
\* resolves to no record of that nation list, so that a get of x answers 404.
C12_DeletedIdentifierUnresolved ==
  (last.op = "delete" /\ last.status = 204)
    => Find(ItemsOf(dataCache, last.category, last.nation),
            idFieldForCategory[last.category], last.identifier) = Null


\* C13: while a category's collection is not loaded, every nation-scoped
\* request on it (list by nation, get one, create, update, delete) is
\* answered 500 NotLoaded, never 404, and the collection stays not loaded.
C13_NotLoadedAnswers500 ==
  [][\A c \in Categories :
       ~dataCache[c].loaded =>
         /\ ~dataCache'[c].loaded
         /\ last'.category = c => (last'.status = 500 /\ last'.kind = "NotLoaded")]_vars

\* C14: with the collection loaded, list-by-nation answers 404 exactly when
\* the nation key is absent, and then lists all nation keys of the collection
\* as available_nations; a nation present with an empty list is answered 200
\* with count 0.
C14_ListByNation ==
  (last.op = "list" /\ dataCache[last.category].loaded) =>
    LET doc == dataCache[last.category].doc
    IN /\ last.status = 404 <=> last.nation \notin DOMAIN doc
       /\ last.status = 404 => last.available_nations = DOMAIN doc
       /\ last.nation \in DOMAIN doc =>
            /\ last.status = 200
            /\ last.items = doc[last.nation]
            /\ last.count = Len(doc[last.nation])

\* a nation whose list became empty is listed with 200 and count 0
C14_Witness ==
  /\ last.op = "list" /\ last.status = 200 /\ last.count = 0
  /\ served > 0
  /\ disk[last.category] = CompleteFile(dataCache[last.category].doc)


\* C15: a create or update that violates a validation rule (a missing or
\* blank required field on create; rank, br or crew out of range on either)
\* is answered 400 with details listing every violated rule of the request,
\* and memory and disk stay as they were.
C15_ValidationRejectsAndListsAll ==
  [][LET c == last'.category
         errors == validateGenericData(c, last'.body, last'.op = "update")
     IN (/\ served' = served + 1
         /\ last'.op \in {"create", "update"}
         /\ dataCache[c].loaded
         /\ last'.op = "update" => last'.nation \in DOMAIN dataCache[c].doc
         /\ Len(errors) > 0)
        => /\ last'.status = 400
           /\ last'.details = errors
           /\ dataCache' = dataCache
           /\ disk' = disk]_vars


\* an update of an existing nation list whose identifier resolves to no record
UnresolvedUpdate ==
  /\ served' = served + 1
  /\ last'.op = "update"
  /\ dataCache[last'.category].loaded
  /\ last'.nation \in DOMAIN dataCache[last'.category].doc
  /\ FindIndex(dataCache[last'.category].doc[last'.nation],
               idFieldForCategory[last'.category], last'.identifier) = 0

\* a body with a rank outside 1..8, a br outside 1..15 or a crew below 1
FailsRangeChecks(body) ==
  \/ OutOfRange(Get(body, "rank"), 1, 8)
  \/ OutOfRange(Get(body, "br"), 1, 15)
  \/ BelowMinimum(Get(body, "crew"), 1)

\* C16 as stated: an update whose identifier does not resolve in an existing
\* nation list is answered 404 whatever the body contains.
C16_UnresolvedUpdateIs404 ==
  [][UnresolvedUpdate => last'.status = 404]_vars

\* C16 as amended: an update whose identifier does not resolve in an existing
\* nation list is answered 400 when its body fails the range checks and 404
\* otherwise - the body is validated before the target is resolved - and in
\* both cases memory and disk stay as they were.
C16_UnresolvedUpdateValidatedFirst ==
  [][UnresolvedUpdate =>
       /\ last'.status = (IF FailsRangeChecks(last'.body) THEN 400 ELSE 404)
       /\ dataCache' = dataCache
       /\ disk' = disk]_vars

\* an update with an out-of-range rank and an identifier that resolves to no
\* record of the existing nation list was answered 400
C16_Witness ==
  /\ last.op = "update" /\ last.status = 400
  /\ last.nation \in DOMAIN dataCache[last.category].doc
  /\ FindIndex(dataCache[last.category].doc[last.nation],
               idFieldForCategory[last.category], last.identifier) = 0


\* the save made last
LatestSave == saves[Len(saves)]

\* C17: with one save at a time, at every step - a crash or a failure at any
\* point included - the target file holds the complete document it held
\* before the save or the complete new document; when the save returns
\* failure the target is the one it was before, when it returns success the
\* target is the new document.
C17_TargetPriorOrNew ==
  Len(saves) > 0 =>
    LET save == LatestSave
        target == disk[save.category]
    IN /\ target.state = "complete"
       /\ target \in {save.prior, CompleteFile(save.text)}
       /\ save.result = "false" => target = save.prior
       /\ save.result = "true" => target = CompleteFile(save.text)

\* the process died while the temp file was half written: the target still
\* holds the prior document, which differs from the one being saved
C17_Witness ==
  /\ Len(saves) > 0
  /\ LatestSave.pc = "crashed"
  /\ tmp[LatestSave.category] = PartialFile
  /\ disk[LatestSave.category] = LatestSave.prior
  /\ LatestSave.prior # CompleteFile(LatestSave.text)

\* C18: when two saves of one category document overlap, the target file is
\* never corrupted: it is a complete document at every step, and once all
\* saves have finished every save that reported success has its document,
\* or that of a save called later, in the target.
C18_OverlappingSavesKeepTarget ==
  \A c \in Categories :
    /\ dataCache[c].loaded => disk[c].state = "complete"
    /\ (\A s \in DOMAIN saves : saves[s].pc = "done") =>
         \A s \in DOMAIN saves :
           (saves[s].category = c /\ saves[s].result = "true") =>
             \E t \in s..Len(saves) : disk[c] = CompleteFile(saves[t].text)


\* the pages first..last of the list as last requested, one after the other
RECURSIVE PagesFrom(_, _)
PagesFrom(first, final) ==
  IF first > final THEN <<>>
  ELSE GetAllResult(dataCache[last.category], idFieldForCategory[last.category],
                    last.query.q, Str(NumberToString(first)), last.query.limit).items
       \o PagesFrom(first + 1, final)

\* C19: for the filter and the limit of a flattened list request, every page
\* has at most limit items, pages 1..totalPages one after the other are the
\* filtered list (every item once, in the same order), and the pages after
\* totalPages are empty.
C19_PagesPartitionFilteredList ==
  last.op = "all" =>
    LET collection == dataCache[last.category]
        filtered == Filtered(Flat(IF collection.loaded THEN collection.doc ELSE <<>>),
                             idFieldForCategory[last.category], last.query.q)
    IN /\ Len(last.items) <= last.limit
       /\ \A p \in 1..(last.totalPages + 2) : Len(PagesFrom(p, p)) <= last.limit
       /\ PagesFrom(1, last.totalPages) = filtered
       /\ PagesFrom(last.totalPages + 1, last.totalPages + 2) = <<>>

\* a filtered list of three records was served in pages of two
C19_Witness ==
  /\ last.op = "all" /\ Truthy(last.query.q)
  /\ last.total = 3 /\ last.limit = 2 /\ last.totalPages = 2
  /\ last.page = 2 /\ Len(last.items) = 1

\* C20: whatever page and limit are requested (absent, zero, negative, not a
\* number, above the maximum), the effective page is at least 1, the
\* effective limit is between 1 and 100, and totalPages is the ceiling of
\* total divided by the effective limit.
C20_EffectivePageAndLimit ==
  last.op = "all" =>
    /\ last.page >= 1
    /\ last.limit >= 1 /\ last.limit <= 100
    /\ last.totalPages * last.limit >= last.total
    /\ (last.totalPages - 1) * last.limit < last.total

\* page zero and a limit above the maximum were requested on a non-empty list
C20_Witness ==
  /\ last.op = "all"
  /\ last.query.page = Str(<<"0">>) /\ last.query.limit = Str(<<"1", "0", "1">>)
  /\ last.page = 1 /\ last.limit = 100
  /\ last.total > 0 /\ last.totalPages = 1

\* a value that is present in a body but is not a string
PresentNonString(v) == TypeOf(v) \notin {"undefined", "string"}

\* C22: every create on a loaded collection is answered, and a create whose
\* id-field or name is present but is not a string is answered 400
\* ValidationError, by the generic handler and by the aircraft handler of
\* src/server.js.
C22_CreateAlwaysAnswered ==
  (last.op \in {"create", "createAircraft"} /\ dataCache[last.category].loaded) =>
    /\ last.status # 0
    /\ (\/ PresentNonString(Get(last.body, idFieldForCategory[last.category]))
        \/ PresentNonString(Get(last.body, "name")))
         => (last.status = 400 /\ last.kind = "ValidationError")

ReadOps == {"all", "list", "get"}

\* two requests for the same resource
SameResource(a, b) ==
  /\ a.op = b.op /\ a.category = b.category /\ a.nation = b.nation
  /\ a.identifier = b.identifier /\ a.query = b.query

C24_RejectedRequestChangesNothing ==
  [][(served' = served + 1
      /\ last'.op \in MutatingOps
      /\ last'.kind \in {"ValidationError", "Conflict", "NotFound"})
       => /\ dataCache' = dataCache
          /\ DOMAIN dataCache'[last'.category].doc = DOMAIN dataCache[last'.category].doc]_vars

\* C25: after a successful update, every field of the body other than id,
\* nation and the id-field has the body's value in the stored record, every
\* field of the record that the body does not carry keeps its value, and the
\* record returned is the stored record.
C25_UpdateMergesBody ==
  [][(served' = served + 1 /\ last'.op = "update" /\ last'.kind = "ok") =>
       LET c == last'.category
           idField == idFieldForCategory[c]
           index == FindIndex(dataCache[c].doc[last'.nation], idField, last'.identifier)
           original == dataCache[c].doc[last'.nation][index]
           stored == dataCache'[c].doc[last'.nation][index]
           body == last'.body
       IN /\ \A k \in (DOMAIN body) \ {"id", "nation", idField} :
               k \in DOMAIN stored /\ stored[k] = body[k]
          /\ \A k \in (DOMAIN original) \ (DOMAIN body) :
               k \in DOMAIN stored /\ stored[k] = original[k]
          /\ last'.item = stored]_vars

\* a record that carries a rank was given a new name and kept its rank
C25_Witness ==
  /\ last.op = "update" /\ last.kind = "ok"
  /\ "rank" \in DOMAIN last.item /\ "rank" \notin DOMAIN last.body
  /\ Get(last.item, "name") = Get(last.body, "name")

\* C26: a successful delete removes the one resolved record and keeps the
\* other records of the nation's list in their order; a successful update
\* changes the resolved position only and keeps the length of the list; a
\* successful create appends at the end.
C26_ListPositions ==
  [][(served' = served + 1 /\ last'.op \in MutatingOps /\ last'.kind = "ok") =>
       LET c == last'.category
           before == ItemsOf(dataCache, c, last'.nation)
           after == ItemsOf(dataCache', c, last'.nation)
           index == FindIndex(before, idFieldForCategory[c], last'.identifier)
       IN CASE last'.op = "delete" ->
                 /\ Len(after) = Len(before) - 1
                 /\ \A i \in 1..Len(after) :
                      after[i] = (IF i < index THEN before[i] ELSE before[i + 1])
            [] last'.op = "update" ->
                 /\ Len(after) = Len(before)
                 /\ \A i \in 1..Len(after) : i # index => after[i] = before[i]
                 /\ after[index] = last'.item
            [] OTHER ->
                 /\ Len(after) = Len(before) + 1
                 /\ \A i \in 1..Len(before) : after[i] = before[i]
                 /\ after[Len(after)] = last'.item]_vars

\* the first of two records was deleted and the second one is what remains
C26_Witness ==
  /\ last.op = "delete" /\ last.kind = "ok"
  /\ LET items == ItemsOf(dataCache, last.category, last.nation)
     IN /\ Len(items) = 1
        /\ ~Matches(items[1], idFieldForCategory[last.category], last.identifier)

\* the list a request left in memory when it made its save call
AppliedList(request) ==
  CASE request.op = "create" -> Append(request.before, request.item)
    [] request.op = "update" ->
         [request.before EXCEPT ![request.index] =
            Spread(Spread(request.item, request.body),
                   [k \in {"id", "nation", "aircraftid"} |-> request.item[k]])]
    [] request.op = "delete" ->
         [i \in 1..(Len(request.before) - 1) |->
            IF i < request.index THEN request.before[i] ELSE request.before[i + 1]]

\* C21: every mutating request goes through validate, resolve (update and
\* delete), apply in memory, persist, respond in that order: a request that
\* reached its save was valid and, for update and delete, resolved to a
\* record of the list; what it handed to the save is the list with its change
\* applied; 201 / 200 / 204 is sent only after the save returned success, and
\* 500 PersistenceError only after the save returned failure and the rollback
\* was performed.
C21_StepsInOrder ==
  \A s \in DOMAIN saves :
    LET request == saves[s].request
    IN request.op # "none" =>
         /\ request.op = "create" =>
              /\ ~NotNonEmptyString(Get(request.body, "aircraftid"))
              /\ ~NotNonEmptyString(Get(request.body, "name"))
         /\ request.op = "update" => ~FailsRangeChecks(request.body)
         /\ request.op \in {"update", "delete"} =>
              /\ request.index \in 1..Len(request.before)
              /\ Matches(request.before[request.index], "aircraftid", request.identifier)
         /\ saves[s].text = Stringify([n \in {request.nation} |-> AppliedList(request)])
         /\ request.status \in {0, 200, 201, 204, 500}
         /\ request.status \in {200, 201, 204} =>
              /\ saves[s].pc = "done" /\ saves[s].result = "true"
              /\ ~request.rolledBack
              /\ request.status = (CASE request.op = "create" -> 201
                                     [] request.op = "update" -> 200
                                     [] request.op = "delete" -> 204)
         /\ request.status = 500 =>
              /\ saves[s].pc = "done" /\ saves[s].result = "false"
              /\ request.rolledBack

\* one request was answered 500 after its rollback and another one 201
C21_Witness ==
  \E s, t \in DOMAIN saves :
    /\ saves[s].request.status = 500 /\ saves[s].request.rolledBack
    /\ saves[t].request.status = 201 /\ saves[t].result = "true"

\* the usa list of aircraft in a collection
ListOf(cache) == cache["aircraft"].doc[usa]

\* the step in which the handler of save s resumes after a failed save
FailedResume(s, op) ==
  /\ saves[s].request.op = op
  /\ saves[s].request.status = 0
  /\ saves'[s].request.status = 500

\* C27: when a create's save fails and another create to the same list was
\* appended while that save was pending, the rollback removes exactly the
\* record the failed create appended and the other create's record stays.
C27_CreateRollbackRemovesOwnRecord ==
  [][\A s \in DOMAIN saves :
       (/\ FailedResume(s, "create")
        /\ \E t \in DOMAIN saves : t > s /\ saves[t].request.op = "create")
       => /\ ListOf(dataCache') =
               SelectSeq(ListOf(dataCache), LAMBDA i : i # saves[s].request.item)
          /\ \A t \in DOMAIN saves :
               (/\ t > s /\ saves[t].request.op = "create"
                /\ \E i \in 1..Len(ListOf(dataCache)) :
                     ListOf(dataCache)[i] = saves[t].request.item)
               => \E j \in 1..Len(ListOf(dataCache')) :
                    ListOf(dataCache')[j] = saves[t].request.item]_vars

\* C28: when an update's save fails and another request to the same list was
\* applied while that save was pending, the rollback changes no other record
\* and keeps the length of the list; the record the update resolved gets its
\* pre-update content back, unless a later update of that record was
\* acknowledged, whose change then stays.
C28_UpdateRollbackRestoresOwnRecord ==
  [][\A s \in DOMAIN saves :
       (/\ FailedResume(s, "update")
        /\ \E t \in DOMAIN saves : t > s)
       => LET request == saves[s].request
              list == ListOf(dataCache)
              after == ListOf(dataCache')
              acknowledged == \E t \in DOMAIN saves :
                                /\ t > s
                                /\ saves[t].request.op = "update"
                                /\ saves[t].request.identifier = request.identifier
                                /\ saves[t].request.status = 200
          IN /\ Len(after) = Len(list)
             /\ \A i \in 1..Len(list) :
                  IF Get(list[i], "id") = Get(request.item, "id")
                    THEN after[i] = (IF acknowledged THEN list[i] ELSE request.item)
                    ELSE after[i] = list[i]]_vars

\* the list with the record a delete removed put back after the records that
\* preceded it when the delete resolved it
DeleteNeverIssued(list, request) ==
  LET preceding == {i \in 1..Len(list) :
                      \E k \in 1..(request.index - 1) : request.before[k] = list[i]}
  IN InsertAt(list, Cardinality(preceding) + 1, request.item)

\* C29: when a delete's save fails and creates or deletes on the same list
\* were applied while that save was pending, the rollback puts the removed
\* record back so that the list is what it would be had the delete never been
\* issued: the same records in the same relative order.
C29_DeleteRollbackRestoresList ==
  [][\A s \in DOMAIN saves :
       (/\ FailedResume(s, "delete")
        /\ \E t \in DOMAIN saves : t > s
        /\ \A t \in DOMAIN saves \ {s} :
             /\ saves[t].request.op \in {"create", "delete"}
             /\ saves[t].request.status # 500)
       => ListOf(dataCache') = DeleteNeverIssued(ListOf(dataCache), saves[s].request)]_vars

\* C30: when two mutating requests on a category overlap at the persistence
\* step, one save fails and the other succeeds, then once every request has
\* responded the document on disk equals the collection in memory.
C30_DiskEqualsMemoryAfterOverlap ==
  (/\ \A u \in DOMAIN saves : saves[u].request.status # 0
   /\ \E s, t \in DOMAIN saves :
        /\ s \in saves[t].request.overlaps
        /\ {saves[s].result, saves[t].result} = {"true", "false"})
  => disk["aircraft"] = CompleteFile(Stringify(dataCache["aircraft"].doc))

\* C37: every record stored by a create or an update satisfies the range
\* rules of the optional fields when they are present: rank is a number in
\* 1..8, br a number in 1..15, crew a number of at least 1.
C37_StoredRecordsInRange ==
  [][(/\ served' = served + 1
      /\ last'.op \in {"create", "update"}
      /\ last'.kind = "ok")
     => ~FailsRangeChecks(last'.item)]_vars

\* C36: in the aircraft create handler of src/server.js, when the save fails
\* the appended aircraft is removed from the in-memory list before the 500
\* response: the in-memory aircraft collection equals its state before the
\* request.
C36_AircraftCreateRollsBack ==
  [][(/\ served' = served + 1
      /\ last'.op = "createAircraft"
      /\ last'.kind = "PersistenceError")
     => /\ dataCache'["aircraft"] = dataCache["aircraft"]
        /\ \A i \in 1..Len(ItemsOf(dataCache', "aircraft", last'.nation)) :
             ~StrictEq(Get(ItemsOf(dataCache', "aircraft", last'.nation)[i], "aircraftid"),
                       Get(last'.body, "aircraftid"))]_vars

\* C35: a create, update or delete on (category c, nation n) changes nothing
\* outside the list of n in c, whether it succeeds or fails: the lists of the
\* other nations of c and their keys, the collections and the files of the
\* other categories, and the nations list stay as they were.
C35_MutationsChangeNothingElse ==
  [][(served' = served + 1 /\ last'.op \in MutatingOps) =>
       LET c == last'.category
           n == last'.nation
       IN /\ DOMAIN dataCache' = DOMAIN dataCache
          /\ \A k \in DOMAIN dataCache \ {c} : dataCache'[k] = dataCache[k]
          /\ dataCache'[c].loaded = dataCache[c].loaded
          /\ \A m \in ((DOMAIN dataCache[c].doc) \cup (DOMAIN dataCache'[c].doc)) \ {n} :
               /\ m \in DOMAIN dataCache[c].doc
               /\ m \in DOMAIN dataCache'[c].doc
               /\ dataCache'[c].doc[m] = dataCache[c].doc[m]
          /\ \A k \in Categories \ {c} : disk'[k] = disk[k] /\ tmp'[k] = tmp[k]]_vars

\* a record of uk aircraft was deleted, then a create of usa tanks failed at
\* its save, while usa aircraft, the nations list and the aircraft file
\* still hold their records
C35_Witness ==
  /\ last.op = "create" /\ last.category = "tanks" /\ last.kind = "PersistenceError"
  /\ dataCache["nations"] = Loaded(NationsDoc)
  /\ Len(dataCache["aircraft"].doc[usa]) = 1
  /\ Len(dataCache["aircraft"].doc[uk]) = 0
  /\ disk["aircraft"].state = "complete"

\* C33: id-field values stay unique within a list when requests overlap: when
\* a delete of the record with id-field value k was pending, a create with
\* id-field value k was accepted meanwhile and the delete's save then failed,
\* the list does not hold two records with id-field value k.
C33_RecreateKeepsIdFieldUnique ==
  \A s, t \in DOMAIN saves :
    (/\ saves[s].request.op = "delete"
     /\ saves[t].request.op = "create"
     /\ s \in saves[t].request.overlaps
     /\ Get(saves[t].request.body, "aircraftid") = Get(saves[s].request.item, "aircraftid")
     /\ saves[s].request.status = 500)
    => Cardinality({i \in 1..Len(ListOf(dataCache)) :
                      Get(ListOf(dataCache)[i], "aircraftid")
                        = Get(saves[s].request.item, "aircraftid")}) <= 1

\* C31: of two creates on the same list of which the second is handled while
\* the save of the first is pending, and whose bodies carry no id, the two
\* records never get the same numeric id; and two such creates with the same
\* id-field value are never both accepted.
C31_OverlappingCreatesDiffer ==
  \A s, t \in DOMAIN saves :
    (/\ saves[s].request.op = "create"
     /\ saves[t].request.op = "create"
     /\ s \in saves[t].request.overlaps
     /\ "id" \notin DOMAIN saves[s].request.body
     /\ "id" \notin DOMAIN saves[t].request.body)
    => /\ Get(saves[s].request.item, "id") # Get(saves[t].request.item, "id")
       /\ Get(saves[s].request.body, "aircraftid") # Get(saves[t].request.body, "aircraftid")

\* what a read by identifier must answer while the request of save s is
\* pending and the list in memory is the one that request left
ObservesPending(s, response) ==
  LET request == saves[s].request
  IN CASE request.op = "create" ->
            response.identifier = Get(request.body, "aircraftid").s
              => response.status = 200 /\ response.item = request.item
       [] request.op = "update" ->
            response.identifier = request.identifier
              => /\ response.status = 200
                 /\ response.item = AppliedList(request)[request.index]
       [] request.op = "delete" ->
            response.identifier = request.identifier
              => response.status = 404 \/ response.item # request.item
       [] OTHER -> TRUE

\* C32: a read served while the save of a mutation is pending observes the
\* mutation's effect in memory: it returns the record a pending create
\* appended and the content a pending update wrote, and it does not return
\* the record a pending delete removed.
C32_ReadObservesPendingMutation ==
  [][(last' # last /\ last'.op = "get") =>
       \A s \in DOMAIN saves :
         (/\ saves[s].request.status = 0
          /\ ListOf(dataCache) = AppliedList(saves[s].request))
         => ObservesPending(s, last')]_vars

\* a read returned the record of a create whose save then failed: the record
\* was rolled back and the file never held it
C32_Witness ==
  /\ last.op = "get" /\ last.status = 200
  /\ Len(saves) = 1
  /\ saves[1].request.op = "create"
  /\ saves[1].request.status = 500 /\ saves[1].request.rolledBack
  /\ last.item = saves[1].request.item
  /\ ListOf(dataCache) = ConcurrentDoc[usa]
  /\ disk["aircraft"] = CompleteFile(Stringify(ConcurrentDoc))

\* C34: every mutating request whose save has returned is eventually
\* answered, and once answered its response never changes; and every request
\* on tanks that reached its save is eventually answered even though a save
\* of aircraft may stay stalled for ever.
C34_EveryRequestAnswered ==
  /\ \A s \in 1..MaxRequests :
       (s \in DOMAIN saves /\ saves[s].pc = "done")
         ~> (s \in DOMAIN saves /\ saves[s].request.status # 0)
  /\ [][\A s \in DOMAIN saves :
          saves[s].request.status # 0 => saves'[s].request = saves[s].request]_vars
  /\ \A s \in 1..MaxRequests :
       (s \in DOMAIN saves /\ saves[s].category = "tanks")
         ~> (s \in DOMAIN saves /\ saves[s].request.status # 0)

\* a create on tanks that arrived after a create on aircraft was applied and
\* answered 201 while the save of aircraft has not made a step
C34_Witness ==
  \E s, t \in DOMAIN saves :
    /\ s < t
    /\ saves[s].category = "aircraft" /\ saves[s].pc = "open"
    /\ saves[s].request.status = 0
    /\ saves[t].category = "tanks" /\ saves[t].request.op = "create"
    /\ saves[t].request.status = 201
    /\ \E i \in 1..Len(dataCache["tanks"].doc[usa]) :
         dataCache["tanks"].doc[usa][i] = saves[t].request.item

====
